---- MODULE Spec2Model ----
(***************************************************************************)
(* A model of the agent-stream-kit hub (ASKit): the agents, mailboxes,     *)
(* channels, boards and streams tables, the central event loop, the        *)
(* per-agent worker tasks and the hub calls that drive them.               *)
(*                                                                         *)
(* Every hub call is cut into steps at the places where the code gives up  *)
(* its locks or awaits, so that the event loop, the workers and the caller *)
(* interleave as the tasks of the runtime do.                              *)
(***************************************************************************)
EXTENDS Integers, Sequences, FiniteSets, TLC

VARIABLES
    agents,            \* ASKit.agents: the ids in the agents table
    data,              \* the agent instances: AgentData and the implementation's fields
    agent_txs,         \* ASKit.agent_txs: agent id -> mailbox (0: no sender)
    board_out_agents,  \* ASKit.board_out_agents: board name -> sequence of agent ids
    board_value,       \* ASKit.board_value: board name -> last value
    channels,          \* ASKit.channels: source id -> sequence of <<target, source_handle, target_handle>>
    streams,           \* ASKit.streams: stream id -> AgentStream
    tx,                \* ASKit.tx: TRUE while the event sender is present
    queue,             \* the hub event queue (mpsc::channel(4096))
    loop,              \* the event loop task of spawn_message_loop
    mbox,              \* mailbox -> the messages in it (mpsc::channel(MESSAGE_LIMIT))
    rxClosed,          \* mailbox -> its receiver was closed or dropped
    worker,            \* mailbox -> the agent_loop task that receives from it
    call,              \* the hub call in progress
    done,              \* the last finished hub call and its result
    nCalls,            \* hub calls issued so far
    nCtx,              \* AgentContext ids handed out so far
    nEv,               \* events accepted into the hub event queue so far
    nIn,               \* agent_input calls made so far
    log,               \* agent id -> the callbacks invoked on the agent, in order
    obs,               \* the events sent to the observers
    dropped,           \* the Inputs that agent_input dropped: agent, call, event, pin
    id_counter,        \* ID_COUNTER of id.rs: the next id new_id() hands out
    stream_counter,    \* ID_COUNTER of spec.rs: the next id AgentStream::new takes
    readied,           \* ready() calls made so far
    pending,           \* host thread -> its new_agent_stream / rename_agent_stream in progress
    ctxs,              \* the AgentContexts a caller holds: the one new() made, the latest derived
    ctxOp,             \* the last call made on a held AgentContext, with what it returned
    heap,              \* the Arc allocations behind the AgentValues a caller holds
    vals,              \* the AgentValues a caller holds
    valOp              \* the last call made on a held AgentValue, with what it returned

vars == <<agents, data, agent_txs, board_out_agents, board_value, channels, streams,
          tx, queue, loop, mbox, rxClosed, worker, call, done, nCalls, nCtx, nEv,
          nIn, log, obs, dropped, id_counter, stream_counter, readied, pending,
          ctxs, ctxOp, heap, vals, valOp>>

\* the contexts and values a caller holds: no call on the hub touches them
heldVars == <<ctxs, ctxOp, heap, vals, valOp>>

\* what the runtime tasks leave alone: the id counters and the host's bookkeeping
hostVars == <<id_counter, stream_counter, readied, pending, heldVars>>

hubTables == <<agents, agent_txs, board_out_agents, board_value, channels, streams, tx>>

-----------------------------------------------------------------------------
(* Bounds of the model.                                                    *)

\* capacity of an agent mailbox in the model (MESSAGE_LIMIT is 1024 in the code)
MailboxCap == 2
\* capacity of the hub event queue in the model (4096 in the code)
EventQueueCap == 2
\* hub calls issued by the host program in one run
MaxCalls == 3
\* host threads that call the hub's stream naming methods at the same time
MaxThreads == 2

\* the longest stream name the host program tries
MaxNameLen == 3

-----------------------------------------------------------------------------
(* Values, pins, names.                                                    *)

\* AgentValue: a tagged value (value.rs); the variants the runtime core moves around
AVUnit == [tag |-> "unit", i |-> 0, s |-> ""]
AVInteger(n) == [tag |-> "integer", i |-> n, s |-> ""]
AVString(str) == [tag |-> "string", i |-> 0, s |-> str]

\* board and variable names
Names == {"n1", "n2"}
\* the values the host program sends on input and output pins
InputValues == {AVString("n1")}
\* the values the host program sets name configs to
ConfigValues == {AVString("n2")}

\* Option<String>::None
None == "<none>"

CONFIG_BOARD_NAME == "board"
CONFIG_VAR_NAME == "var"
PIN_IN == "in"
PIN_RESET == "reset"
PIN_COUNT == "count"

AgentIds == {"a1", "a2", "a3", "a4", "a5"}
StreamIds == {"s1", "s2"}

\* Option<AgentConfigs>: None, or Some(map from config key to value)
NoConfigs == [some |-> FALSE, map |-> <<>>]
SomeConfigs(map) == [some |-> TRUE, map |-> map]

\* AgentConfigs::get_string(key).ok(), on the agent's Option<AgentConfigs>
get_string(configs, key) ==
    IF ~configs.some THEN None
    ELSE IF key \in DOMAIN configs.map /\ configs.map[key].tag = "string"
         THEN configs.map[key].s
    ELSE None

\* AgentConfigs::set(key, value)
configs_set(configs, key, value) ==
    SomeConfigs([k \in DOMAIN configs.map \cup {key} |->
                    IF k = key THEN value ELSE configs.map[k]])

-----------------------------------------------------------------------------
(* Agent definitions and agent construction.                               *)

\* the definitions registered with the hub: the built-in board agents, the test
\* probe and the counter agent of the test suite, and "Faulty": an implementation
\* of AsAgent whose start, stop or process (the one its config "fail" names)
\* returns Err
DefNames == {"BoardIn", "BoardOut", "VarIn", "VarOut", "TestProbe", "Counter", "Faulty"}

\* the config key that names the failing callback of a Faulty agent
CONFIG_FAIL == "fail"

\* the implementation's name config key, if it has one
NameKey(def_name) ==
    IF def_name \in {"BoardIn", "BoardOut"} THEN CONFIG_BOARD_NAME
    ELSE IF def_name \in {"VarIn", "VarOut"} THEN CONFIG_VAR_NAME
    ELSE None

\* agent_new + AsAgent::new + set_stream_id: the instance built from a spec
agent_new(stream_id, aspec) ==
    [ def_name  |-> aspec.def_name,
      stream_id |-> stream_id,
      status    |-> "Init",
      configs   |-> aspec.configs,
      name      |-> IF NameKey(aspec.def_name) = None THEN None
                    ELSE get_string(aspec.configs, NameKey(aspec.def_name)),
      count     |-> 0 ]

\* an instance slot that no agent_new has filled
NoAgent == [def_name |-> None, stream_id |-> None, status |-> "Init",
            configs |-> NoConfigs, name |-> None, count |-> 0]

-----------------------------------------------------------------------------
(* The channel table.                                                      *)

ChannelSpec(source, source_handle, target, target_handle) ==
    [source |-> source, source_handle |-> source_handle,
     target |-> target, target_handle |-> target_handle]

\* the channel table's entry for a ChannelSpec
Entry(channel) == <<channel.target, channel.source_handle, channel.target_handle>>

\* the mutation of add_channel_internal: no look for the entry in the list
add_channel_unchecked(chs, channel) ==
    IF channel.source \in DOMAIN chs
    THEN [ok |-> TRUE,
          channels |-> [chs EXCEPT ![channel.source] = Append(@, Entry(channel))]]
    ELSE [ok |-> TRUE, channels |-> chs @@ (channel.source :> <<Entry(channel)>>)]

\* add_channel_internal: the table after the call, and whether it returned Ok
add_channel_internal(chs, channel) ==
    IF channel.source \in DOMAIN chs
    THEN IF \E i \in 1..Len(chs[channel.source]) : chs[channel.source][i] = Entry(channel)
         THEN [ok |-> FALSE, channels |-> chs]
         ELSE [ok |-> TRUE,
               channels |-> [chs EXCEPT ![channel.source] = Append(@, Entry(channel))]]
    ELSE [ok |-> TRUE, channels |-> chs @@ (channel.source :> <<Entry(channel)>>)]

RECURSIVE add_channels(_, _)
\* add_agent_stream's loop over the spec's channels; a failure is logged and skipped
add_channels(chs, chanSeq) ==
    IF chanSeq = <<>> THEN chs
    ELSE add_channels(add_channel_internal(chs, Head(chanSeq)).channels, Tail(chanSeq))

RECURSIVE add_agents(_, _, _)
\* add_agent_stream's loop over the spec's agents with add_agent_internal; a failure
\* (AgentAlreadyExists, UnknownDefName) is logged and skipped.  tbl is the set of ids
\* in the agents table paired with the instances.
add_agents(tbl, stream_id, agentSeq) ==
    IF agentSeq = <<>> THEN tbl
    ELSE LET a == Head(agentSeq)
             next == IF a.id \in tbl.ids \/ a.def_name \notin DefNames
                     THEN tbl
                     ELSE [ids |-> tbl.ids \cup {a.id},
                           data |-> [tbl.data EXCEPT ![a.id] = agent_new(stream_id, a)]]
         IN  add_agents(next, stream_id, Tail(agentSeq))

\* AgentStream::new(name, spec), as add_agent_stream calls it
AgentStream(name, spec) == [name |-> name, running |-> FALSE, spec |-> spec]

-----------------------------------------------------------------------------
(* The streams the host program has added before the run starts.           *)

AgentSpec(id, def_name, configs, disabled) ==
    [id |-> id, def_name |-> def_name, configs |-> configs, disabled |-> disabled]

NameConfig(key, name) == SomeConfigs(key :> AVString(name))

\* a counter feeding two probes, one of them disabled, and an agent of an
\* unregistered definition
RoutingStreams ==
    "s1" :> [agents |-> << AgentSpec("a1", "Counter", SomeConfigs(<<>>), FALSE),
                           AgentSpec("a2", "TestProbe", NoConfigs, FALSE),
                           AgentSpec("a3", "TestProbe", NoConfigs, TRUE),
                           AgentSpec("a4", "Unregistered", NoConfigs, FALSE) >>,
             channels |-> << ChannelSpec("a1", PIN_COUNT, "a2", "value"),
                             ChannelSpec("a1", PIN_COUNT, "a4", "value"),
                             ChannelSpec("a1", "*", "a3", "value"),
                             ChannelSpec("a1", "*", "a2", "*") >>]

\* a board (or variable) writer and reader in one stream, a reader of the same
\* name in a second stream
BusStreams(inDef, outDef) ==
    "s1" :> [agents |-> << AgentSpec("a1", inDef, NameConfig(NameKey(inDef), "n1"), FALSE),
                           AgentSpec("a2", outDef, NameConfig(NameKey(outDef), "n1"), FALSE),
                           AgentSpec("a3", "TestProbe", NoConfigs, FALSE) >>,
             channels |-> << ChannelSpec("a2", "*", "a3", "*") >>]
    @@
    "s2" :> [agents |-> << AgentSpec("a4", outDef, NameConfig(NameKey(outDef), "n1"), FALSE),
                           AgentSpec("a5", "TestProbe", NoConfigs, FALSE) >>,
             channels |-> << ChannelSpec("a4", "*", "a5", "value") >>]

\* an agent with a failing callback and a counter, both wired to a probe; the
\* probe hangs on the "err" pin of the first and on every pin of the second
FaultyStreams(cb) ==
    "s1" :> [agents |-> << AgentSpec("a1", "Faulty", NameConfig(CONFIG_FAIL, cb), FALSE),
                           AgentSpec("a2", "TestProbe", NoConfigs, FALSE),
                           AgentSpec("a3", "Counter", SomeConfigs(<<>>), FALSE) >>,
             channels |-> << ChannelSpec("a1", "err", "a2", "value"),
                             ChannelSpec("a3", PIN_COUNT, "a2", "value"),
                             ChannelSpec("a3", "*", "a2", "*") >>]

\* the callbacks an implementation can fail in
Callbacks == {"start", "stop", "process"}

Scenarios == {"routing", "board", "var"}

StreamSpecs(sc) ==
    IF sc = "routing" THEN RoutingStreams
    ELSE IF sc = "board" THEN BusStreams("BoardIn", "BoardOut")
    ELSE BusStreams("VarIn", "VarOut")

RECURSIVE add_agent_streams(_, _, _)
\* add_agent_stream for each stream of specs, in the order of ids; the host names
\* each stream like the id it is known by in the model
add_agent_streams(st, specs, ids) ==
    IF ids = <<>> THEN st
    ELSE LET id == Head(ids)
             tbl == add_agents([ids |-> st.agents, data |-> st.data], id, specs[id].agents)
         IN  add_agent_streams(
                [agents   |-> tbl.ids,
                 data     |-> tbl.data,
                 channels |-> add_channels(st.channels, specs[id].channels),
                 streams  |-> st.streams @@ (id :> AgentStream(id, specs[id]))],
                specs, Tail(ids))

\* ASKit::new: empty tables
NewHub == [agents |-> {}, data |-> [a \in AgentIds |-> NoAgent],
           channels |-> <<>>, streams |-> <<>>]

SortedStreamIds(specs) ==
    IF DOMAIN specs = {"s1"} THEN <<"s1">> ELSE <<"s1", "s2">>

Hub(sc) == add_agent_streams(NewHub, StreamSpecs(sc), SortedStreamIds(StreamSpecs(sc)))

-----------------------------------------------------------------------------
(* Messages, events, observer events.                                      *)

\* str.starts_with(prefix)
starts_with(str, prefix) ==
    Len(str) >= Len(prefix) /\ SubSeq(str, 1, Len(prefix)) = prefix

\* AgentMessage (the mailbox messages).  ev and d say which queue event and which
\* agent_input call a message comes from, src and spin the source and the pin of
\* that event; the code does not carry them.
MsgStop == [type |-> "Stop", ctx |-> 0, pin |-> "", value |-> AVUnit, ev |-> 0, d |-> 0,
            src |-> "", spin |-> ""]

\* the mutation of InputMessage: every pin makes an Input
InputMessageNoConfig(ctx, pin, value, ev, d) ==
    [type |-> "Input", ctx |-> ctx, pin |-> pin, value |-> value, ev |-> ev, d |-> d,
     src |-> "", spin |-> ""]

\* agent_input's choice of message: Config for a pin "config:<key>", Input otherwise
InputMessage(ctx, pin, value, ev, d) ==
    IF starts_with(pin, "config:")
    THEN [type |-> "Config", ctx |-> 0, pin |-> SubSeq(pin, 8, Len(pin)),
          value |-> value, ev |-> ev, d |-> d, src |-> "", spin |-> ""]
    ELSE [type |-> "Input", ctx |-> ctx, pin |-> pin, value |-> value, ev |-> ev, d |-> d,
          src |-> "", spin |-> ""]

\* the mutation of Enqueue: a message goes to the front of the mailbox
EnqueueFront(box, msg) == <<msg>> \o box

\* mpsc Sender::send / try_send into a mailbox with room: the message goes to the end
Enqueue(box, msg) == Append(box, msg)

\* AgentEventMessage::AgentOut / BoardOut; ev is the event's place in the order of
\* acceptance into the queue
AgentOut(agent, ctx, pin, value, ev) ==
    [type |-> "AgentOut", name |-> agent, ctx |-> ctx, pin |-> pin, value |-> value, ev |-> ev]
BoardOut(name, ctx, value, ev) ==
    [type |-> "BoardOut", name |-> name, ctx |-> ctx, pin |-> "", value |-> value, ev |-> ev]
NoEvent == [type |-> "None", name |-> "", ctx |-> 0, pin |-> "", value |-> AVUnit, ev |-> 0]

\* ASKitEvent, with the event or agent_input call it belongs to
ObsAgentIn(agent_id, pin, d) ==
    [type |-> "AgentIn", name |-> agent_id, pin |-> pin, value |-> AVUnit, n |-> d]
ObsAgentError(agent_id, message, d) ==
    [type |-> "AgentError", name |-> agent_id, pin |-> message, value |-> AVUnit, n |-> d]
ObsBoard(name, value, ev) ==
    [type |-> "Board", name |-> name, pin |-> "", value |-> value, n |-> ev]

\* an entry of an agent's callback log; out is the event that the callback got
\* accepted into the queue (0: none)
LogEntry(op, msg, m) ==
    [op |-> op, ctx |-> msg.ctx, pin |-> msg.pin, value |-> msg.value,
     ev |-> msg.ev, d |-> msg.d, src |-> msg.src, spin |-> msg.spin, mb |-> m,
     out |-> 0]

-----------------------------------------------------------------------------
(* The board subscriber table and the board agents' names.                 *)

\* board_name_for_var
board_name_for_var(flow_name, var_name) == "%" \o flow_name \o "%" \o var_name

\* the board an agent publishes to or subscribes under, for a given name config
BoardOf(a, name) ==
    IF data[a].def_name \in {"VarIn", "VarOut"}
    THEN board_name_for_var(data[a].stream_id, name)
    ELSE name

\* push the id onto board_out_agents[board], creating the list if needed
Subscribe(boa, board, id) ==
    IF board \in DOMAIN boa THEN [boa EXCEPT ![board] = Append(@, id)]
    ELSE boa @@ (board :> <<id>>)

\* nodes.retain(|x| x != id)
Unsubscribe(boa, board, id) ==
    IF board \in DOMAIN boa
    THEN [boa EXCEPT ![board] = SelectSeq(@, LAMBDA x : x # id)]
    ELSE boa

\* the implementation's callback cb returns Err
FailsOn(a, cb) ==
    data[a].def_name = "Faulty" /\ get_string(data[a].configs, CONFIG_FAIL) = cb

IsOutAgent(a) == data[a].def_name \in {"BoardOut", "VarOut"}
IsInAgent(a) == data[a].def_name \in {"BoardIn", "VarIn"}

-----------------------------------------------------------------------------
(* The agent callbacks, as the adapter (impl Agent for T) runs them.  Each *)
(* one says what it does to data, board_out_agents, queue, nEv, obs, log.  *)

cbVars == <<data, board_out_agents, queue, nEv, obs, log>>

\* Agent::start: status Start, then the implementation's start; its error goes
\* to the observers
AgentStart(a, m) ==
    /\ data' = [data EXCEPT ![a].status = "Start",
                            ![a].count = IF data[a].def_name = "Counter" THEN 0 ELSE @]
    /\ board_out_agents' =
          IF IsOutAgent(a) /\ data[a].name # None
          THEN Subscribe(board_out_agents, BoardOf(a, data[a].name), a)
          ELSE board_out_agents
    /\ log' = [log EXCEPT ![a] = Append(@, LogEntry("start", MsgStop, m))]
    /\ obs' = IF FailsOn(a, "start")
              THEN obs \cup {ObsAgentError(a, "start", 0)}
              ELSE obs
    /\ UNCHANGED <<queue, nEv>>

\* Agent::stop: status Stop, then `self.stop().await?`, then status Init
StatusAfterStop(a) == IF FailsOn(a, "stop") THEN "Stop" ELSE "Init"

\* Agent::stop: status Stop, the implementation's stop, status Init
AgentStop(a) ==
    /\ data' = [data EXCEPT ![a].status = StatusAfterStop(a)]
    /\ board_out_agents' =
          IF IsOutAgent(a) /\ data[a].name # None
          THEN Unsubscribe(board_out_agents, BoardOf(a, data[a].name), a)
          ELSE board_out_agents
    /\ log' = [log EXCEPT ![a] = Append(@, LogEntry("stop", MsgStop, 0))]
    /\ UNCHANGED <<queue, nEv, obs>>

\* the event an agent's process emits for an input, or NoEvent
Emits(a, msg) ==
    IF data[a].def_name = "Counter"
    THEN AgentOut(a, msg.ctx, PIN_COUNT,
                  AVInteger(IF msg.pin = PIN_RESET THEN 0
                            ELSE IF msg.pin = PIN_IN THEN data[a].count + 1
                            ELSE data[a].count), nEv + 1)
    ELSE IF IsInAgent(a) /\ data[a].name \notin {None, ""}
    THEN BoardOut(BoardOf(a, data[a].name), msg.ctx, msg.value, nEv + 1)
    ELSE NoEvent

\* the mutation of TrySendResult: try_send does not ask for the event sender
TrySendIgnoresTx ==
    IF Len(queue) >= EventQueueCap THEN "SendMessageFailed" ELSE "Ok"

\* try_send_agent_out / try_send_board_out: the result of a try_send of one event
TrySendResult ==
    IF ~tx THEN "TxNotInitialized"
    ELSE IF Len(queue) >= EventQueueCap THEN "SendMessageFailed"
    ELSE "Ok"

\* the error the implementation's process returns for an input, or "Ok"
ProcessResult(a, msg) ==
    IF FailsOn(a, "process") THEN "process"
    ELSE IF Emits(a, msg) # NoEvent THEN TrySendResult
    ELSE "Ok"

\* Agent::process: the implementation's process; an error goes to the observers
AgentProcess(a, msg, m) ==
    LET e == Emits(a, msg) IN
    /\ data' = [data EXCEPT ![a].count =
                   IF data[a].def_name # "Counter" THEN @
                   ELSE IF msg.pin = PIN_RESET THEN 0
                   ELSE IF msg.pin = PIN_IN THEN @ + 1 ELSE @]
    /\ log' = [log EXCEPT ![a] = Append(@,
                  [LogEntry("process", msg, m) EXCEPT
                      !.out = IF e # NoEvent /\ TrySendResult = "Ok" THEN e.ev ELSE 0])]
    /\ IF ProcessResult(a, msg) # "Ok"
       THEN /\ obs' = obs \cup {ObsAgentError(a, ProcessResult(a, msg), msg.d)}
            /\ UNCHANGED <<queue, nEv>>
       ELSE IF e = NoEvent
       THEN UNCHANGED <<queue, nEv, obs>>
       ELSE queue' = Append(queue, e) /\ nEv' = nEv + 1 /\ obs' = obs
    /\ UNCHANGED board_out_agents

\* Agent::set_config: configs.set and configs_changed, when the agent has configs
AgentSetConfig(a, msg, m) ==
    LET has     == data[a].configs.some
        configs == IF has THEN configs_set(data[a].configs, msg.pin, msg.value)
                   ELSE data[a].configs
        key     == NameKey(data[a].def_name)
        new     == IF key = None THEN None ELSE get_string(configs, key)
        old     == data[a].name
    IN
    /\ data' = [data EXCEPT ![a].configs = configs,
                            ![a].name = IF has THEN new ELSE @]
    /\ board_out_agents' =
          IF has /\ IsOutAgent(a) /\ old # new
          THEN LET removed == IF old # None
                              THEN Unsubscribe(board_out_agents, BoardOf(a, old), a)
                              ELSE board_out_agents
               IN  IF new # None THEN Subscribe(removed, BoardOf(a, new), a) ELSE removed
          ELSE board_out_agents
    /\ log' = [log EXCEPT ![a] = Append(@, LogEntry("set_config", msg, m))]
    /\ UNCHANGED <<queue, nEv, obs>>

-----------------------------------------------------------------------------
(* agent_input, in its two halves: the lookup of the mailbox sender (with  *)
(* the direct path for an agent that has none) and the awaited send.       *)

\* the pin agent_input was called with, for the message it made of it
OriginalPin(msg) == IF msg.type = "Config" THEN "config:" \o msg.pin ELSE msg.pin

\* the mutation of DirectInput: an Input for an agent without a mailbox is processed
DirectInputProcessed(a, msg) ==
    IF a \in agents
    THEN IF msg.type = "Config" THEN AgentSetConfig(a, msg, 0) ELSE AgentProcess(a, msg, 0)
    ELSE UNCHANGED cbVars

\* agent_input for an agent without a mailbox sender: a Config is applied
\* directly, an Input is dropped
DirectInput(a, msg) ==
    IF a \in agents /\ msg.type = "Config"
    THEN AgentSetConfig(a, msg, 0)
    ELSE UNCHANGED cbVars

DirectResult(a) == IF a \in agents THEN "Ok" ELSE "AgentNotFound"

\* the record of the Input that DirectInput drops
Drops(a, msg) ==
    IF a \in agents /\ msg.type = "Input"
    THEN {[agent |-> a, d |-> msg.d, ev |-> msg.ev, pin |-> msg.pin]}
    ELSE {}

\* tx.send(message).await can complete: the receiver is gone or there is room
CanSend(m) == rxClosed[m] \/ Len(mbox[m]) < MailboxCap

\* tx.send(message).await, then emit_agent_input
SendInput(m, a, msg) ==
    IF rxClosed[m]
    THEN UNCHANGED <<mbox, obs>>
    ELSE /\ mbox' = [mbox EXCEPT ![m] = Enqueue(@, msg)]
         /\ obs' = obs \cup {ObsAgentIn(a, OriginalPin(msg), msg.d)}

SendResult(m) == IF rxClosed[m] THEN "SendMessageFailed" ELSE "Ok"

-----------------------------------------------------------------------------
(* The event loop (spawn_message_loop, agent_out, board_out).              *)

\* the source pin of a channel matches the emitted pin
PinMatches(source_pin, pin) == source_pin = pin \/ source_pin = "*"

\* the mutation of EffectivePin: the target pin as written, also when it is "*"
EffectivePinAsWritten(target_pin, pin) == target_pin

\* the pin a value is delivered under
EffectivePin(target_pin, pin) == IF target_pin = "*" THEN pin ELSE target_pin

\* agent_out delivers on this entry: the pin matches and the target is in the table
Delivers(entry, pin) == PinMatches(entry[2], pin) /\ entry[1] \in agents

RECURSIVE SkipEntriesAbort(_, _)
\* the mutation of SkipEntries: an absent target ends the routing of the event
SkipEntriesAbort(todo, pin) ==
    IF todo = <<>> \/ Delivers(Head(todo), pin) THEN todo
    ELSE IF PinMatches(Head(todo)[2], pin) THEN <<>>
    ELSE SkipEntriesAbort(Tail(todo), pin)

RECURSIVE SkipEntries(_, _)
\* agent_out's `continue`s: the entries from the first one it delivers on
SkipEntries(todo, pin) ==
    IF todo = <<>> \/ Delivers(Head(todo), pin) THEN todo
    ELSE SkipEntries(Tail(todo), pin)

\* channels.get(source).cloned()
ChannelsOf(source) == IF source \in DOMAIN channels THEN channels[source] ELSE <<>>

\* board_out_agents.get(name).cloned()
SubscribersOf(name) ==
    IF name \in DOMAIN board_out_agents THEN board_out_agents[name] ELSE <<>>

\* the mutation of NextNode: only the first subscriber of the board is served
NextNodeOnlyFirst(nodes, todo) ==
    IF todo # <<>> \/ nodes = <<>> THEN [nodes |-> nodes, todo |-> todo]
    ELSE [nodes |-> <<>>, todo |-> ChannelsOf(Head(nodes))]

RECURSIVE NextNode(_, _)
\* board_out's loop over the subscribed nodes: the next node that has edges
NextNode(nodes, todo) ==
    IF todo # <<>> \/ nodes = <<>> THEN [nodes |-> nodes, todo |-> todo]
    ELSE NextNode(Tail(nodes), ChannelsOf(Head(nodes)))

IdleLoop == [pc |-> "recv", ev |-> NoEvent, snap |-> <<>>, nodes |-> <<>>, todo |-> <<>>,
             held |-> 0, target |-> "", msg |-> MsgStop, calls |-> <<>>]

\* rx.recv() of the event loop, and the snapshot agent_out / board_out takes first
LoopRecv ==
    /\ loop.pc = "recv"
    /\ queue # <<>>
    /\ LET e == Head(queue) IN
       /\ queue' = Tail(queue)
       /\ IF e.type = "AgentOut"
          THEN /\ loop' = [IdleLoop EXCEPT !.pc = "route", !.ev = e,
                                           !.snap = ChannelsOf(e.name),
                                           !.todo = ChannelsOf(e.name)]
               /\ UNCHANGED board_value
          ELSE /\ board_value' = [n \in DOMAIN board_value \cup {e.name} |->
                                     IF n = e.name THEN e.value ELSE board_value[n]]
               /\ loop' = [IdleLoop EXCEPT !.pc = "route", !.ev = e,
                              !.snap = SubscribersOf(e.name),
                              !.nodes = SubscribersOf(e.name)]
    /\ UNCHANGED <<agents, data, agent_txs, board_out_agents, channels, streams, tx,
                   mbox, rxClosed, worker, call, done, nCalls, nCtx, nEv, nIn, log, obs,
                   dropped>>
    /\ UNCHANGED hostVars

\* the work left for the event in hand: the entries from the next delivery on
LoopWork ==
    IF loop.ev.type = "AgentOut"
    THEN [nodes |-> <<>>, todo |-> SkipEntries(loop.todo, loop.ev.pin)]
    ELSE NextNode(loop.nodes, loop.todo)

\* an agent_input call of the event loop, as its arguments
InputCall(target, ctx, pin, value) ==
    [target |-> target, ctx |-> ctx, pin |-> pin, value |-> value]

\* the name a "*" target pin stands for: the emitted pin, or the board name
WildcardPin(e) == IF e.type = "AgentOut" THEN e.pin ELSE e.name

\* one pass of the delivery loop up to agent_input's lookup of the sender; with no
\* entry left the event is done (board_out then emits Board)
LoopRoute ==
    /\ loop.pc = "route"
    /\ LET w == LoopWork IN
       IF w.todo = <<>>
       THEN /\ loop' = [loop EXCEPT !.pc = "recv", !.nodes = <<>>, !.todo = <<>>]
            /\ obs' = IF loop.ev.type = "BoardOut"
                      THEN obs \cup {ObsBoard(loop.ev.name, loop.ev.value, loop.ev.ev)}
                      ELSE obs
            /\ UNCHANGED <<data, board_out_agents, queue, nEv, log, nIn, dropped>>
       ELSE LET entry  == Head(w.todo)
                target == entry[1]
                pin    == EffectivePin(entry[3], WildcardPin(loop.ev))
                msg    == [InputMessage(loop.ev.ctx, pin, loop.ev.value, loop.ev.ev, nIn + 1)
                              EXCEPT !.src = loop.ev.name, !.spin = loop.ev.pin]
                next   == [loop EXCEPT !.nodes = w.nodes, !.todo = Tail(w.todo),
                              !.calls = Append(@, InputCall(target, loop.ev.ctx, pin,
                                                            loop.ev.value))]
            IN  /\ nIn' = nIn + 1
                /\ IF agent_txs[target] # 0
                   THEN /\ loop' = [next EXCEPT !.pc = "send", !.held = agent_txs[target],
                                                !.target = target, !.msg = msg]
                        /\ UNCHANGED <<cbVars, dropped>>
                   ELSE /\ loop' = next
                        /\ DirectInput(target, msg)
                        /\ dropped' = dropped \cup Drops(target, msg)
    /\ UNCHANGED <<agents, agent_txs, board_value, channels, streams, tx,
                   mbox, rxClosed, worker, call, done, nCalls, nCtx>>
    /\ UNCHANGED hostVars

\* the awaited send of agent_input, called from the event loop
LoopSend ==
    /\ loop.pc = "send"
    /\ CanSend(loop.held)
    /\ SendInput(loop.held, loop.target, loop.msg)
    /\ loop' = [loop EXCEPT !.pc = "route", !.held = 0, !.target = "", !.msg = MsgStop]
    /\ UNCHANGED <<agents, data, agent_txs, board_out_agents, board_value, channels,
                   streams, tx, queue, rxClosed, worker, call, done, nCalls, nCtx,
                   nEv, nIn, log, dropped>>
    /\ UNCHANGED hostVars

-----------------------------------------------------------------------------
(* The worker task of an agent (agent_loop in start_agent).                *)

Mailboxes == 1..Len(mbox)

\* the mutation of HasSender: the task keeps a sender of its own mailbox alive
HasSenderKept(m) == TRUE

\* a sender of the mailbox is alive: the one in the table, or a clone held by an
\* agent_input that awaits its send
HasSender(m) ==
    \/ \E a \in AgentIds : agent_txs[a] = m
    \/ loop.held = m
    \/ call.held = m

\* agent_guard.start().await at the head of the task; when it fails the task
\* returns, which drops the receiver and the messages in the mailbox
WorkerStart(m) ==
    /\ worker[m].pc = "spawned"
    /\ AgentStart(worker[m].agent, m)
    /\ IF FailsOn(worker[m].agent, "start")
       THEN /\ worker' = [worker EXCEPT ![m].pc = "done"]
            /\ rxClosed' = [rxClosed EXCEPT ![m] = TRUE]
            /\ mbox' = [mbox EXCEPT ![m] = <<>>]
       ELSE /\ worker' = [worker EXCEPT ![m].pc = "loop"]
            /\ UNCHANGED <<mbox, rxClosed>>
    /\ UNCHANGED <<agents, agent_txs, board_value, channels, streams, tx, loop,
                   call, done, nCalls, nCtx, nIn, dropped>>
    /\ UNCHANGED hostVars

\* what Agent::set_config returns for a Config message: the error of the
\* implementation's configs_changed, run after configs.set when the agent has configs
SetConfigResult(a, msg) ==
    IF /\ data[a].configs.some
       /\ data[a].def_name = "Faulty"
       /\ get_string(configs_set(data[a].configs, msg.pin, msg.value), CONFIG_FAIL) = "config"
    THEN "config"
    ELSE "Ok"

\* what the worker's arm for a message gets back from process or set_config
HandleResult(a, msg) ==
    IF msg.type = "Input" THEN ProcessResult(a, msg) ELSE SetConfigResult(a, msg)

\* the mutation of WorkerRecv: an error of process or set_config ends the worker
WorkerRecvFailFast(m) ==
    /\ worker[m].pc = "loop"
    /\ mbox[m] # <<>>
    /\ LET msg == Head(mbox[m])
           a   == worker[m].agent
       IN  IF msg.type = "Stop"
           THEN /\ rxClosed' = [rxClosed EXCEPT ![m] = TRUE]
                /\ mbox' = [mbox EXCEPT ![m] = <<>>]
                /\ worker' = [worker EXCEPT ![m].pc = "done"]
                /\ UNCHANGED cbVars
           ELSE /\ IF msg.type = "Input" THEN AgentProcess(a, msg, m)
                                         ELSE AgentSetConfig(a, msg, m)
                /\ IF HandleResult(a, msg) = "Ok"
                   THEN /\ mbox' = [mbox EXCEPT ![m] = Tail(@)]
                        /\ UNCHANGED <<rxClosed, worker>>
                   ELSE /\ rxClosed' = [rxClosed EXCEPT ![m] = TRUE]
                        /\ mbox' = [mbox EXCEPT ![m] = <<>>]
                        /\ worker' = [worker EXCEPT ![m].pc = "done"]
    /\ UNCHANGED <<agents, agent_txs, board_value, channels, streams, tx, loop,
                   call, done, nCalls, nCtx, nIn, dropped>>
    /\ UNCHANGED hostVars

\* rx.recv().await yields a message: the match on it
WorkerRecv(m) ==
    /\ worker[m].pc = "loop"
    /\ mbox[m] # <<>>
    /\ LET msg == Head(mbox[m])
           a   == worker[m].agent
       IN  IF msg.type = "Stop"
           THEN /\ rxClosed' = [rxClosed EXCEPT ![m] = TRUE]
                /\ mbox' = [mbox EXCEPT ![m] = <<>>]
                /\ worker' = [worker EXCEPT ![m].pc = "done"]
                /\ UNCHANGED cbVars
           ELSE /\ mbox' = [mbox EXCEPT ![m] = Tail(@)]
                /\ IF msg.type = "Input" THEN AgentProcess(a, msg, m)
                                         ELSE AgentSetConfig(a, msg, m)
                /\ UNCHANGED <<rxClosed, worker>>
    /\ UNCHANGED <<agents, agent_txs, board_value, channels, streams, tx, loop,
                   call, done, nCalls, nCtx, nIn, dropped>>
    /\ UNCHANGED hostVars

\* rx.recv().await yields None: the mailbox is empty and every sender is dropped
WorkerExit(m) ==
    /\ worker[m].pc = "loop"
    /\ mbox[m] = <<>>
    /\ ~HasSender(m)
    /\ rxClosed' = [rxClosed EXCEPT ![m] = TRUE]
    /\ worker' = [worker EXCEPT ![m].pc = "done"]
    /\ UNCHANGED <<agents, data, agent_txs, board_out_agents, board_value, channels,
                   streams, tx, queue, loop, mbox, call, done, nCalls, nCtx, nEv,
                   nIn, log, obs, dropped>>
    /\ UNCHANGED hostVars

-----------------------------------------------------------------------------
(* start_agent and stop_agent.                                             *)

\* start_agent: for an agent in status Init a new mailbox, its sender in the
\* table and a spawned worker; what it does to agent_txs, mbox, rxClosed, worker
start_agent(a) ==
    IF a \in agents /\ data[a].status = "Init"
    THEN /\ agent_txs' = [agent_txs EXCEPT ![a] = Len(mbox) + 1]
         /\ mbox' = Append(mbox, <<>>)
         /\ rxClosed' = Append(rxClosed, FALSE)
         /\ worker' = Append(worker, [agent |-> a, pc |-> "spawned"])
    ELSE UNCHANGED <<agent_txs, mbox, rxClosed, worker>>

\* stop_agent, first block: the sender leaves the table and Stop is try_sent
stop_agent_tx(a) ==
    LET m == agent_txs[a] IN
    IF m # 0
    THEN /\ agent_txs' = [agent_txs EXCEPT ![a] = 0]
         /\ mbox' = IF ~rxClosed[m] /\ Len(mbox[m]) < MailboxCap
                    THEN [mbox EXCEPT ![m] = Enqueue(@, MsgStop)]
                    ELSE mbox
    ELSE UNCHANGED <<agent_txs, mbox>>

\* stop_agent, second block: the stop callback of an agent in status Start
stop_agent_cb(a) ==
    IF a \in agents /\ data[a].status = "Start"
    THEN AgentStop(a)
    ELSE UNCHANGED cbVars

-----------------------------------------------------------------------------
(* The hub calls of the host program.                                      *)

NoStream == [name |-> "", running |-> FALSE, spec |-> [agents |-> <<>>, channels |-> <<>>]]

IdleCall == [op |-> "idle", stage |-> "", id |-> "", list |-> <<>>, stream |-> NoStream,
             held |-> 0, msg |-> MsgStop]

\* what a call took and returned besides its status: the agents and channels given
\* to it and those it returned
NoOut == [in_agents |-> <<>>, in_channels |-> <<>>, agents |-> <<>>, channels |-> <<>>]

\* the record of a finished call; running is TRUE for a start_agent_stream that
\* found its stream running, name is the stream name a naming call was given, out
\* what a call returned besides Ok
Done(op, id, pin, value, ctx, d, mb, ret) ==
    [op |-> op, id |-> id, pin |-> pin, value |-> value, ctx |-> ctx, d |-> d,
     mb |-> mb, ret |-> ret, running |-> FALSE, name |-> "", out |-> NoOut]

CanCall == call.op = "idle" /\ nCalls < MaxCalls

Range(seq) == {seq[i] : i \in 1..Len(seq)}

Ids(agentSeq) == [i \in 1..Len(agentSeq) |-> agentSeq[i].id]

\* the agent ids the host program knows: those of the specs of its streams
KnownAgents == UNION {Range(Ids(streams[s].spec.agents)) : s \in DOMAIN streams}

\* the mutation of StartList: start does not skip the disabled agents
StartListAll(stream) == Ids(stream.spec.agents)

\* AgentStream::start iterates the spec's agents and skips the disabled ones
StartList(stream) == Ids(SelectSeq(stream.spec.agents, LAMBDA x : ~x.disabled))

\* AgentStream::stop iterates all of the spec's agents
StopList(stream) == Ids(stream.spec.agents)

\* streams.swap_remove(id)
WithoutStream(id) == [s \in DOMAIN streams \ {id} |-> streams[s]]

\* streams.insert(id, stream)
WithStream(id, stream) ==
    [s \in DOMAIN streams \cup {id} |-> IF s = id THEN stream ELSE streams[s]]

\* the mutation of AlreadyRunning: start does not look at the running flag
NeverRunning(stream) == FALSE

\* AgentStream::start's check `if self.running`
AlreadyRunning(stream) == stream.running

\* start_agent_stream: the stream leaves the table; AgentStream::start returns at
\* once when it is running, else sets running and starts its agents one by one
CallStartStream(id) ==
    /\ CanCall
    /\ nCalls' = nCalls + 1
    /\ IF id \notin DOMAIN streams
       THEN /\ done' = Done("start_agent_stream", id, "", AVUnit, 0, 0, 0, "StreamNotFound")
            /\ UNCHANGED <<streams, call>>
       ELSE IF AlreadyRunning(streams[id]) \/ StartList(streams[id]) = <<>>
       THEN /\ streams' = [streams EXCEPT ![id].running = TRUE]
            /\ done' = [Done("start_agent_stream", id, "", AVUnit, 0, 0, 0, "Ok")
                           EXCEPT !.running = streams[id].running]
            /\ UNCHANGED call
       ELSE /\ streams' = WithoutStream(id)
            /\ call' = [IdleCall EXCEPT !.op = "start_agent_stream", !.id = id,
                           !.stream = [streams[id] EXCEPT !.running = TRUE],
                           !.list = StartList(streams[id])]
            /\ UNCHANGED done
    /\ UNCHANGED <<agents, data, agent_txs, board_out_agents, board_value, channels, tx,
                   queue, loop, mbox, rxClosed, worker, nCtx, nEv, nIn, log, obs, dropped>>
    /\ UNCHANGED hostVars

\* the next start_agent of AgentStream::start; after the last one the stream goes
\* back into the table
StartStreamStep ==
    /\ call.op = "start_agent_stream"
    /\ start_agent(Head(call.list))
    /\ IF Tail(call.list) = <<>>
       THEN /\ streams' = WithStream(call.id, call.stream)
            /\ call' = IdleCall
            /\ done' = Done("start_agent_stream", call.id, "", AVUnit, 0, 0, 0, "Ok")
       ELSE /\ call' = [call EXCEPT !.list = Tail(@)]
            /\ UNCHANGED <<streams, done>>
    /\ UNCHANGED <<agents, data, board_out_agents, board_value, channels, tx,
                   queue, loop, nCalls, nCtx, nEv, nIn, log, obs, dropped>>
    /\ UNCHANGED hostVars

\* stop_agent_stream: the stream leaves the table; AgentStream::stop stops every
\* agent of the spec and clears running
CallStopStream(id) ==
    /\ CanCall
    /\ nCalls' = nCalls + 1
    /\ IF id \notin DOMAIN streams
       THEN /\ done' = Done("stop_agent_stream", id, "", AVUnit, 0, 0, 0, "StreamNotFound")
            /\ UNCHANGED <<streams, call>>
       ELSE IF StopList(streams[id]) = <<>>
       THEN /\ streams' = [streams EXCEPT ![id].running = FALSE]
            /\ done' = Done("stop_agent_stream", id, "", AVUnit, 0, 0, 0, "Ok")
            /\ UNCHANGED call
       ELSE /\ streams' = WithoutStream(id)
            /\ call' = [IdleCall EXCEPT !.op = "stop_agent_stream", !.stage = "tx",
                           !.id = id, !.stream = streams[id],
                           !.list = StopList(streams[id])]
            /\ UNCHANGED done
    /\ UNCHANGED <<agents, data, agent_txs, board_out_agents, board_value, channels, tx,
                   queue, loop, mbox, rxClosed, worker, nCtx, nEv, nIn, log, obs, dropped>>
    /\ UNCHANGED hostVars

\* the first block of the next stop_agent of AgentStream::stop
StopStreamTx ==
    /\ call.op = "stop_agent_stream"
    /\ call.stage = "tx"
    /\ stop_agent_tx(Head(call.list))
    /\ call' = [call EXCEPT !.stage = "cb"]
    /\ UNCHANGED <<agents, data, board_out_agents, board_value, channels, streams, tx,
                   queue, loop, rxClosed, worker, done, nCalls, nCtx, nEv, nIn, log, obs,
                   dropped>>
    /\ UNCHANGED hostVars

\* the second block of that stop_agent; after the last agent running is cleared
\* and the stream goes back into the table
StopStreamCb ==
    /\ call.op = "stop_agent_stream"
    /\ call.stage = "cb"
    /\ stop_agent_cb(Head(call.list))
    /\ IF Tail(call.list) = <<>>
       THEN /\ streams' = WithStream(call.id, [call.stream EXCEPT !.running = FALSE])
            /\ call' = IdleCall
            /\ done' = Done("stop_agent_stream", call.id, "", AVUnit, 0, 0, 0, "Ok")
       ELSE /\ call' = [call EXCEPT !.stage = "tx", !.list = Tail(@)]
            /\ UNCHANGED <<streams, done>>
    /\ UNCHANGED <<agents, agent_txs, board_value, channels, tx, loop, mbox, rxClosed,
                   worker, nCalls, nCtx, nIn, dropped>>
    /\ UNCHANGED hostVars

\* agent_input from the host program, with a fresh context: the lookup of the sender
CallAgentInput(a, pin, value) ==
    /\ CanCall
    /\ nCalls' = nCalls + 1
    /\ nCtx' = nCtx + 1
    /\ nIn' = nIn + 1
    /\ LET msg == InputMessage(nCtx + 1, pin, value, 0, nIn + 1) IN
       IF agent_txs[a] # 0
       THEN /\ call' = [IdleCall EXCEPT !.op = "agent_input", !.id = a,
                                        !.held = agent_txs[a], !.msg = msg]
            /\ UNCHANGED <<done, cbVars, dropped>>
       ELSE /\ DirectInput(a, msg)
            /\ done' = Done("agent_input", a, pin, value, nCtx + 1, nIn + 1, 0,
                            DirectResult(a))
            /\ dropped' = dropped \cup Drops(a, msg)
            /\ UNCHANGED call
    /\ UNCHANGED <<agents, agent_txs, board_value, channels, streams, tx, loop,
                   mbox, rxClosed, worker>>
    /\ UNCHANGED hostVars

\* the awaited send of that agent_input
CallAgentInputSend ==
    /\ call.op = "agent_input"
    /\ CanSend(call.held)
    /\ SendInput(call.held, call.id, call.msg)
    /\ done' = Done("agent_input", call.id, OriginalPin(call.msg), call.msg.value,
                    call.msg.ctx, call.msg.d, call.held, SendResult(call.held))
    /\ call' = IdleCall
    /\ UNCHANGED <<agents, data, agent_txs, board_out_agents, board_value, channels,
                   streams, tx, queue, loop, rxClosed, worker, nCalls, nCtx, nEv,
                   nIn, log, dropped>>
    /\ UNCHANGED hostVars

\* the mutation of SendEvent: the send does not wait for room in the event queue
SendEventNoWait(op, e) ==
    /\ CanCall
    /\ nCalls' = nCalls + 1
    /\ nCtx' = nCtx + 1
    /\ IF tx
       THEN /\ queue' = Append(queue, e)
            /\ nEv' = nEv + 1
            /\ done' = Done(op, e.name, e.pin, e.value, e.ctx, 0, 0, "Ok")
       ELSE /\ done' = Done(op, e.name, e.pin, e.value, e.ctx, 0, 0, "TxNotInitialized")
            /\ UNCHANGED <<queue, nEv>>
    /\ UNCHANGED <<agents, data, agent_txs, board_out_agents, board_value, channels,
                   streams, tx, loop, mbox, rxClosed, worker, call, nIn, log, obs,
                   dropped>>
    /\ UNCHANGED hostVars

\* tx()?.send(event).await: fails without the event sender, else waits for room
SendEvent(op, e) ==
    /\ CanCall
    /\ ~tx \/ Len(queue) < EventQueueCap
    /\ nCalls' = nCalls + 1
    /\ nCtx' = nCtx + 1
    /\ IF tx
       THEN /\ queue' = Append(queue, e)
            /\ nEv' = nEv + 1
            /\ done' = Done(op, e.name, e.pin, e.value, e.ctx, 0, 0, "Ok")
       ELSE /\ done' = Done(op, e.name, e.pin, e.value, e.ctx, 0, 0, "TxNotInitialized")
            /\ UNCHANGED <<queue, nEv>>
    /\ UNCHANGED <<agents, data, agent_txs, board_out_agents, board_value, channels,
                   streams, tx, loop, mbox, rxClosed, worker, call, nIn, log, obs,
                   dropped>>
    /\ UNCHANGED hostVars

\* send_agent_out from the host program
CallSendAgentOut(a, pin, value) ==
    SendEvent("send_agent_out", AgentOut(a, nCtx + 1, pin, value, nEv + 1))

\* send_board_out: a BoardOut event for the board
send_board_out(op, name, value) ==
    SendEvent(op, BoardOut(name, nCtx + 1, value, nEv + 1))

\* write_board_value
CallWriteBoard(name, value) == send_board_out("write_board_value", name, value)

\* the board name write_var_value writes to
VarBoard(stream_id, name) == "%" \o stream_id \o "/" \o name

\* write_var_value
CallWriteVar(stream_id, name, value) ==
    send_board_out("write_var_value", VarBoard(stream_id, name), value)

-----------------------------------------------------------------------------
(* The specification.                                                      *)

\* what the host program feeds an agent: a value on the input pin, or a new name
\* on the config pin of an agent that has a name config
Inputs(a) ==
    {<<PIN_IN, v>> : v \in InputValues}
    \cup (IF a \in agents /\ NameKey(data[a].def_name) # None
          THEN {<<"config:" \o NameKey(data[a].def_name), v>> : v \in ConfigValues}
          ELSE {})

\* the pins the host program emits on, in the name of an agent that has channels
OutputPins == {PIN_COUNT, "other"}

\* the host threads that call the hub
HostThreads == 1..MaxThreads

\* no new_agent_stream / rename_agent_stream in progress
NoPending == [op |-> "idle", id |-> "", name |-> "", new_name |-> ""]

\* the hub after init() and add_agent_stream for the given streams: no task runs
\* and no mailbox exists; the host has made n hub calls of its run and id.rs has
\* handed out the ids below c
\* no call on a held context or value has been made yet
NoCtxOp == [op |-> "none"]
NoValOp == [op |-> "none"]

Fresh(hub, n, c) ==
    /\ agents = hub.agents
    /\ data = hub.data
    /\ channels = hub.channels
    /\ streams = hub.streams
    /\ agent_txs = [a \in AgentIds |-> 0]
    /\ board_out_agents = <<>>
    /\ board_value = <<>>
    /\ queue = <<>>
    /\ loop = IdleLoop
    /\ mbox = <<>>
    /\ rxClosed = <<>>
    /\ worker = <<>>
    /\ call = IdleCall
    /\ done = Done("none", "", "", AVUnit, 0, 0, 0, "")
    /\ nCalls = n
    /\ nCtx = 0
    /\ nEv = 0
    /\ nIn = 0
    /\ log = [a \in AgentIds |-> <<>>]
    /\ obs = {}
    /\ dropped = {}
    /\ id_counter = c
    /\ stream_counter = Cardinality(DOMAIN hub.streams) + 1
    /\ pending = [t \in HostThreads |-> NoPending]
    /\ ctxs = <<>>
    /\ ctxOp = NoCtxOp
    /\ heap = <<>>
    /\ vals = <<>>
    /\ valOp = NoValOp

\* the hub after init(), add_agent_stream for the streams of one scenario, ready()
Init ==
    \E sc \in Scenarios :
        /\ Fresh(Hub(sc), 0, 1)
        /\ tx = TRUE
        /\ readied = 1

Next ==
    \/ \E id \in StreamIds : CallStartStream(id)
    \/ StartStreamStep
    \/ \E id \in StreamIds : CallStopStream(id)
    \/ StopStreamTx
    \/ StopStreamCb
    \/ \E a \in KnownAgents : \E in \in Inputs(a) : CallAgentInput(a, in[1], in[2])
    \/ CallAgentInputSend
    \/ \E a \in DOMAIN channels, pin \in OutputPins, value \in InputValues :
          CallSendAgentOut(a, pin, value)
    \/ \E name \in Names, value \in InputValues : CallWriteBoard(name, value)
    \/ \E id \in StreamIds, name \in Names, value \in InputValues :
          CallWriteVar(id, name, value)
    \/ LoopRecv
    \/ LoopRoute
    \/ LoopSend
    \/ \E m \in Mailboxes : WorkerStart(m)
    \/ \E m \in Mailboxes : WorkerRecv(m)
    \/ \E m \in Mailboxes : WorkerExit(m)

Spec == Init /\ [][Next]_vars

-----------------------------------------------------------------------------
(* The life cycle of the hub: init(), ready(), quit(), with agents whose   *)
(* callbacks fail.                                                         *)

\* ready(): spawn_message_loop puts the event sender in place and spawns the event
\* loop.  The host calls it once.
CallReady ==
    /\ call.op = "idle"
    /\ readied = 0
    /\ tx' = TRUE
    /\ readied' = readied + 1
    /\ done' = Done("ready", "", "", AVUnit, 0, 0, 0, "Ok")
    /\ UNCHANGED <<agents, data, agent_txs, board_out_agents, board_value, channels,
                   streams, queue, loop, mbox, rxClosed, worker, call, nCalls, nCtx, nEv,
                   nIn, log, obs, dropped, id_counter, stream_counter, pending,
                   heldVars>>

\* quit(): the event sender is taken away
CallQuit ==
    /\ call.op = "idle"
    /\ tx
    /\ tx' = FALSE
    /\ done' = Done("quit", "", "", AVUnit, 0, 0, 0, "Ok")
    /\ UNCHANGED <<agents, data, agent_txs, board_out_agents, board_value, channels,
                   streams, queue, loop, mbox, rxClosed, worker, call, nCalls, nCtx, nEv,
                   nIn, log, obs, dropped, hostVars>>

\* try_send_agent_out from the host program: tx()?.try_send(event)
CallTrySendAgentOut(a, pin, value) ==
    /\ CanCall
    /\ nCalls' = nCalls + 1
    /\ nCtx' = nCtx + 1
    /\ done' = Done("try_send_agent_out", a, pin, value, nCtx + 1, 0, 0, TrySendResult)
    /\ IF TrySendResult = "Ok"
       THEN /\ queue' = Append(queue, AgentOut(a, nCtx + 1, pin, value, nEv + 1))
            /\ nEv' = nEv + 1
       ELSE UNCHANGED <<queue, nEv>>
    /\ UNCHANGED <<agents, data, agent_txs, board_out_agents, board_value, channels,
                   streams, tx, loop, mbox, rxClosed, worker, call, nIn, log, obs,
                   dropped, hostVars>>

\* the hub after init() and add_agent_stream, before ready()
LifeInit ==
    \E cb \in Callbacks :
        /\ Fresh(add_agent_streams(NewHub, FaultyStreams(cb), <<"s1">>), 0, 1)
        /\ tx = FALSE
        /\ readied = 0

LifeNext ==
    \/ Next
    \/ CallReady
    \/ CallQuit
    \/ \E a \in DOMAIN channels, pin \in OutputPins, value \in InputValues :
          CallTrySendAgentOut(a, pin, value)

LifeSpec == LifeInit /\ [][LifeNext]_vars

-----------------------------------------------------------------------------
(* Stream names: is_valid_stream_name, unique_stream_name,                 *)
(* new_agent_stream, rename_agent_stream.                                  *)

\* the characters stream names are made of in the model: a letter, a digit, the
\* path characters, a blank and the characters that are invalid in a name
NameChars == {"a", "2", "/", ".", " ", "\\", ":", "*", "?", "\"", "<", ">", "|"}

\* str.contains(sub)
contains(str, sub) ==
    \E i \in 1..(Len(str) - Len(sub) + 1) : SubSeq(str, i, i + Len(sub) - 1) = sub

\* str.ends_with(suffix)
ends_with(str, suffix) ==
    Len(str) >= Len(suffix) /\ SubSeq(str, Len(str) - Len(suffix) + 1, Len(str)) = suffix

RECURSIVE trim_start(_)
trim_start(str) ==
    IF starts_with(str, " ") THEN trim_start(SubSeq(str, 2, Len(str))) ELSE str

RECURSIVE trim_end(_)
trim_end(str) ==
    IF ends_with(str, " ") THEN trim_end(SubSeq(str, 1, Len(str) - 1)) ELSE str

\* str.trim()
trim(str) == trim_end(trim_start(str))

\* str.split('/'): the segments, as the pairs of their first and last position
Segments(str) ==
    {<<i, j>> \in (1..(Len(str) + 1)) \X (0..Len(str)) :
        /\ j >= i - 1
        /\ i = 1 \/ SubSeq(str, i - 1, i - 1) = "/"
        /\ j = Len(str) \/ SubSeq(str, j + 1, j + 1) = "/"
        /\ ~contains(SubSeq(str, i, j), "/")}

\* the mutation of is_valid_stream_name: no check of the segments
is_valid_ignoring_segments(new_name) ==
    /\ trim(new_name) # ""
    /\ contains(new_name, "/")
       => ~(starts_with(new_name, "/") \/ ends_with(new_name, "/")
            \/ contains(new_name, "//"))
    /\ \A c \in {"\\", ":", "*", "?", "\"", "<", ">", "|"} : ~contains(new_name, c)

\* is_valid_stream_name
is_valid_stream_name(new_name) ==
    /\ trim(new_name) # ""
    /\ contains(new_name, "/")
       => /\ ~(starts_with(new_name, "/") \/ ends_with(new_name, "/")
               \/ contains(new_name, "//"))
          /\ ~\E s \in Segments(new_name) : SubSeq(new_name, s[1], s[2]) \in {".", ".."}
    /\ \A c \in {"\\", ":", "*", "?", "\"", "<", ">", "|"} : ~contains(new_name, c)

\* stream.name() of the streams in the table
StreamNames(sts) == {sts[s].name : s \in DOMAIN sts}

RECURSIVE unique_from(_, _, _, _)
\* unique_stream_name's loop: the candidate new_name, the next suffix i
unique_from(sts, name, new_name, i) ==
    IF new_name \in StreamNames(sts)
    THEN unique_from(sts, name, name \o ToString(i), i + 1)
    ELSE new_name

\* unique_stream_name, on the streams table as it is when the lock is taken
unique_stream_name(sts, name) == unique_from(sts, name, trim(name), 2)

\* what the naming calls leave alone
nameRest == <<agents, data, agent_txs, board_out_agents, board_value, channels, tx, queue,
              loop, mbox, rxClosed, worker, call, nCtx, nEv, nIn, log, obs, dropped,
              id_counter, readied, heldVars>>

\* new_agent_stream on thread t, up to the return of unique_stream_name: the name
\* is validated, then made unique against the streams table of this moment
NewStreamBegin(t, name) ==
    /\ pending[t].op = "idle"
    /\ nCalls < MaxCalls
    /\ nCalls' = nCalls + 1
    /\ IF ~is_valid_stream_name(name)
       THEN /\ done' = [Done("new_agent_stream", "", "", AVUnit, 0, 0, 0,
                             "InvalidStreamName") EXCEPT !.name = name]
            /\ UNCHANGED pending
       ELSE /\ pending' = [pending EXCEPT ![t] =
                              [op |-> "new_agent_stream", id |-> "", name |-> name,
                               new_name |-> unique_stream_name(streams, name)]]
            /\ UNCHANGED done
    /\ UNCHANGED <<streams, stream_counter>>
    /\ UNCHANGED nameRest

\* the rest of new_agent_stream: add_agent_stream with the name and an empty spec
NewStreamEnd(t) ==
    /\ pending[t].op = "new_agent_stream"
    /\ LET id == "s" \o ToString(stream_counter) IN
       /\ stream_counter' = stream_counter + 1
       /\ IF id \in DOMAIN streams
          THEN /\ done' = [Done("new_agent_stream", id, "", AVUnit, 0, 0, 0, "DuplicateId")
                              EXCEPT !.name = pending[t].name]
               /\ UNCHANGED streams
          ELSE /\ streams' = WithStream(id, AgentStream(pending[t].new_name,
                                                        [agents |-> <<>>, channels |-> <<>>]))
               /\ done' = [Done("new_agent_stream", id, "", AVUnit, 0, 0, 0, "Ok")
                              EXCEPT !.name = pending[t].name]
    /\ pending' = [pending EXCEPT ![t] = NoPending]
    /\ UNCHANGED nCalls
    /\ UNCHANGED nameRest

\* rename_agent_stream on thread t, up to the return of unique_stream_name
RenameBegin(t, id, name) ==
    /\ pending[t].op = "idle"
    /\ nCalls < MaxCalls
    /\ nCalls' = nCalls + 1
    /\ IF ~is_valid_stream_name(name)
       THEN /\ done' = [Done("rename_agent_stream", id, "", AVUnit, 0, 0, 0,
                             "InvalidStreamName") EXCEPT !.name = name]
            /\ UNCHANGED pending
       ELSE /\ pending' = [pending EXCEPT ![t] =
                              [op |-> "rename_agent_stream", id |-> id, name |-> name,
                               new_name |-> unique_stream_name(streams, name)]]
            /\ UNCHANGED done
    /\ UNCHANGED <<streams, stream_counter>>
    /\ UNCHANGED nameRest

\* the rest of rename_agent_stream: the stream leaves the table, takes the name and
\* goes back
RenameEnd(t) ==
    /\ pending[t].op = "rename_agent_stream"
    /\ IF pending[t].id \notin DOMAIN streams
       THEN /\ done' = [Done("rename_agent_stream", pending[t].id, "", AVUnit, 0, 0, 0,
                             "RenameStreamFailed") EXCEPT !.name = pending[t].name]
            /\ UNCHANGED streams
       ELSE /\ streams' = [streams EXCEPT ![pending[t].id].name = pending[t].new_name]
            /\ done' = [Done("rename_agent_stream", pending[t].id, "", AVUnit, 0, 0, 0, "Ok")
                           EXCEPT !.name = pending[t].name]
    /\ pending' = [pending EXCEPT ![t] = NoPending]
    /\ UNCHANGED <<nCalls, stream_counter>>
    /\ UNCHANGED nameRest

\* the names the threads of the host program ask for: that of a stream of the
\* table, that name with the first suffix, another one
DedupNames == {"s1", "s12", "a"}

\* the streams the host program renames: those it may have, by id
RenameIds == {"s1", "s2"}

NameInit ==
    /\ Fresh(Hub("routing"), 0, 1)
    /\ tx = TRUE
    /\ readied = 1

\* the naming calls of the threads of the host program
NameNext ==
    \E t \in HostThreads :
        \/ \E name \in DedupNames : NewStreamBegin(t, name)
        \/ NewStreamEnd(t)
        \/ \E id \in RenameIds, name \in DedupNames : RenameBegin(t, id, name)
        \/ RenameEnd(t)

NameSpec == NameInit /\ [][NameNext]_vars

RECURSIVE NamesOfLen(_)
\* the strings of n characters
NamesOfLen(n) ==
    IF n = 0 THEN {""} ELSE {str \o c : str \in NamesOfLen(n - 1), c \in NameChars}

\* the names up to the longest
AllNames == UNION {NamesOfLen(n) : n \in 0..MaxNameLen}

\* the hub before the last call of the host program
ValidInit ==
    /\ Fresh(Hub("routing"), MaxCalls - 1, 1)
    /\ tx = TRUE
    /\ readied = 1

\* one naming call of one thread, with any name
ValidNext ==
    \/ \E name \in AllNames : NewStreamBegin(1, name)
    \/ NewStreamEnd(1)
    \/ \E id \in RenameIds, name \in AllNames : RenameBegin(1, id, name)
    \/ RenameEnd(1)

ValidSpec == ValidInit /\ [][ValidNext]_vars

-----------------------------------------------------------------------------
(* The hub's management calls: add_agent, add_channel, remove_channel,     *)
(* add_agent_stream, add_agents_and_channels, remove_agent, start_agent,   *)
(* stop_agent.                                                             *)

\* new_id of id.rs when the counter stands at n; ids are the counter's value,
\* written like the ids of the model
new_id(n) == "a" \o ToString(n)

\* the ids new_id can still hand out within the model's agent ids
CanMint(n) == id_counter + n <= Cardinality(AgentIds) + 1

\* update_ids with the counter at c: every agent gets the next id, the map takes the
\* last fresh id of an input id, a channel with an endpoint outside the map is
\* skipped and the others get the mapped endpoints
update_ids(agentSeq, chanSeq, c) ==
    LET fresh(i) == new_id(c + i - 1)
        last(id) == CHOOSE i \in 1..Len(agentSeq) :
                       /\ agentSeq[i].id = id
                       /\ \A j \in (i + 1)..Len(agentSeq) : agentSeq[j].id # id
        agent_id_map == [id \in Range(Ids(agentSeq)) |-> fresh(last(id))]
        kept == SelectSeq(chanSeq, LAMBDA ch : /\ ch.source \in DOMAIN agent_id_map
                                               /\ ch.target \in DOMAIN agent_id_map)
    IN  [agents   |-> [i \in 1..Len(agentSeq) |-> [agentSeq[i] EXCEPT !.id = fresh(i)]],
         channels |-> [i \in 1..Len(kept) |->
                          [kept[i] EXCEPT !.source = agent_id_map[@],
                                          !.target = agent_id_map[@]]]]

\* add_agent_internal on the agents table tbl (ids and instances): its result and
\* the table after it
add_agent_internal(tbl, stream_id, spec) ==
    IF spec.id \in tbl.ids THEN [ret |-> "AgentAlreadyExists", tbl |-> tbl]
    ELSE IF spec.def_name \notin DefNames THEN [ret |-> "UnknownDefName", tbl |-> tbl]
    ELSE [ret |-> "Ok",
          tbl |-> [ids  |-> tbl.ids \cup {spec.id},
                   data |-> [tbl.data EXCEPT ![spec.id] = agent_new(stream_id, spec)]]]

RECURSIVE add_each_agent(_, _, _)
\* add_agents_and_channels' loop over the agents: add_agent_internal with `?`, then
\* stream.add_agent.  st holds the result so far, the tables and the stream's spec.
add_each_agent(st, stream_id, agentSeq) ==
    IF agentSeq = <<>> THEN st
    ELSE LET r == add_agent_internal([ids |-> st.ids, data |-> st.data], stream_id,
                                     Head(agentSeq))
         IN  IF r.ret # "Ok" THEN [st EXCEPT !.ret = r.ret]
             ELSE add_each_agent([st EXCEPT !.ids = r.tbl.ids, !.data = r.tbl.data,
                                            !.spec.agents = Append(@, Head(agentSeq))],
                                 stream_id, Tail(agentSeq))

RECURSIVE add_each_channel(_, _)
\* add_agents_and_channels' loop over the channels: add_channel_internal with `?`,
\* then stream.add_channel
add_each_channel(st, chanSeq) ==
    IF chanSeq = <<>> \/ st.ret # "Ok" THEN st
    ELSE LET r == add_channel_internal(st.channels, Head(chanSeq))
         IN  IF ~r.ok THEN [st EXCEPT !.ret = "ChannelAlreadyExists"]
             ELSE add_each_channel([st EXCEPT !.channels = r.channels,
                                              !.spec.channels = Append(@, Head(chanSeq))],
                                   Tail(chanSeq))

\* remove_channel_internal: the entry leaves the list of its source, an empty list
\* leaves the table
remove_channel_internal(chs, channel) ==
    IF channel.source \in DOMAIN chs
    THEN LET targets == SelectSeq(chs[channel.source], LAMBDA x : x # Entry(channel))
         IN  IF targets = <<>>
             THEN [s \in DOMAIN chs \ {channel.source} |-> chs[s]]
             ELSE [chs EXCEPT ![channel.source] = targets]
    ELSE chs

\* remove_agent_internal's block on the channel table: the entries to the agent
\* leave every list, the empty lists and the agent's own list leave the table
without_agent(chs, agent_id) ==
    LET kept(s) == SelectSeq(chs[s], LAMBDA x : x[1] # agent_id)
    IN  [s \in {x \in DOMAIN chs : kept(x) # <<>> /\ x # agent_id} |-> kept(s)]

\* what the management calls leave alone
mgmtRest == <<agent_txs, board_out_agents, board_value, tx, queue, loop, mbox, rxClosed,
              worker, nCtx, nEv, nIn, log, obs, dropped, stream_counter, readied,
              pending, heldVars>>

\* add_agent: the stream is looked up, the spec gets a new id, add_agent_internal
\* with `?`, then stream.add_agent
CallAddAgent(stream_id, spec) ==
    /\ CanCall
    /\ CanMint(1)
    /\ nCalls' = nCalls + 1
    /\ IF stream_id \notin DOMAIN streams
       THEN /\ done' = Done("add_agent", stream_id, "", AVUnit, 0, 0, 0, "StreamNotFound")
            /\ UNCHANGED <<agents, data, streams, id_counter>>
       ELSE LET aspec == [spec EXCEPT !.id = new_id(id_counter)]
                r == add_agent_internal([ids |-> agents, data |-> data], stream_id, aspec)
            IN  /\ id_counter' = id_counter + 1
                /\ agents' = r.tbl.ids
                /\ data' = r.tbl.data
                /\ streams' = IF r.ret = "Ok"
                              THEN [streams EXCEPT ![stream_id].spec.agents =
                                                       Append(@, aspec)]
                              ELSE streams
                /\ done' = [Done("add_agent", stream_id, "", AVUnit, 0, 0, 0, r.ret)
                               EXCEPT !.out.in_agents = <<spec>>,
                                      !.out.agents = <<aspec>>]
    /\ UNCHANGED <<channels, call>>
    /\ UNCHANGED mgmtRest

\* the result of add_channel's checks before it touches the stream
add_channel_checks(stream_id, channel) ==
    IF channel.source \notin agents \/ channel.target \notin agents THEN "AgentNotFound"
    ELSE IF channel.source_handle = "" THEN "EmptySourceHandle"
    ELSE IF channel.target_handle = "" THEN "EmptyTargetHandle"
    ELSE IF stream_id \notin DOMAIN streams THEN "StreamNotFound"
    ELSE "Ok"

\* add_channel: the checks, stream.add_channel, then add_channel_internal with `?`
CallAddChannel(stream_id, channel) ==
    /\ CanCall
    /\ nCalls' = nCalls + 1
    /\ LET pre == add_channel_checks(stream_id, channel)
           r == add_channel_internal(channels, channel)
       IN  IF pre # "Ok"
           THEN /\ done' = [Done("add_channel", stream_id, "", AVUnit, 0, 0, 0, pre)
                               EXCEPT !.out.in_channels = <<channel>>]
                /\ UNCHANGED <<streams, channels>>
           ELSE /\ streams' = [streams EXCEPT ![stream_id].spec.channels =
                                                  Append(@, channel)]
                /\ channels' = r.channels
                /\ done' = [Done("add_channel", stream_id, "", AVUnit, 0, 0, 0,
                                 IF r.ok THEN "Ok" ELSE "ChannelAlreadyExists")
                               EXCEPT !.out.in_channels = <<channel>>]
    /\ UNCHANGED <<agents, data, id_counter, call>>
    /\ UNCHANGED mgmtRest

\* remove_channel: the stream leaves the table, stream.remove_channel takes the
\* channel off the spec, the stream goes back, then remove_channel_internal
CallRemoveChannel(stream_id, channel) ==
    /\ CanCall
    /\ nCalls' = nCalls + 1
    /\ IF stream_id \notin DOMAIN streams
       THEN /\ done' = [Done("remove_channel", stream_id, "", AVUnit, 0, 0, 0,
                             "StreamNotFound") EXCEPT !.out.in_channels = <<channel>>]
            /\ UNCHANGED <<streams, channels>>
       ELSE IF channel \notin Range(streams[stream_id].spec.channels)
       THEN /\ done' = [Done("remove_channel", stream_id, "", AVUnit, 0, 0, 0,
                             "ChannelNotFound") EXCEPT !.out.in_channels = <<channel>>]
            /\ UNCHANGED <<streams, channels>>
       ELSE /\ streams' = [streams EXCEPT ![stream_id].spec.channels =
                                              SelectSeq(@, LAMBDA x : x # channel)]
            /\ channels' = remove_channel_internal(channels, channel)
            /\ done' = [Done("remove_channel", stream_id, "", AVUnit, 0, 0, 0, "Ok")
                           EXCEPT !.out.in_channels = <<channel>>]
    /\ UNCHANGED <<agents, data, id_counter, call>>
    /\ UNCHANGED mgmtRest

\* add_agent_stream: AgentStream::new takes the next stream id; the agents and the
\* channels of the spec go into the tables as they are, a failure is logged and
\* skipped; the stream goes into the table
CallAddAgentStream(name, spec) ==
    /\ CanCall
    /\ nCalls' = nCalls + 1
    /\ LET id == "s" \o ToString(stream_counter)
           tbl == add_agents([ids |-> agents, data |-> data], id, spec.agents)
       IN  /\ stream_counter' = stream_counter + 1
           /\ agents' = tbl.ids
           /\ data' = tbl.data
           /\ channels' = add_channels(channels, spec.channels)
           /\ IF id \in DOMAIN streams
              THEN /\ done' = Done("add_agent_stream", id, "", AVUnit, 0, 0, 0, "DuplicateId")
                   /\ UNCHANGED streams
              ELSE /\ streams' = WithStream(id, AgentStream(name, spec))
                   /\ done' = [Done("add_agent_stream", id, "", AVUnit, 0, 0, 0, "Ok")
                                  EXCEPT !.name = name,
                                         !.out.in_agents = spec.agents,
                                         !.out.in_channels = spec.channels]
    /\ UNCHANGED <<agent_txs, board_out_agents, board_value, tx, queue, loop, mbox, rxClosed,
                   worker, nCtx, nEv, nIn, log, obs, dropped, id_counter, readied,
                   pending, call, heldVars>>

\* add_agents_and_channels: update_ids, the stream is looked up, then the two loops;
\* the first error is returned
CallAddAgentsAndChannels(stream_id, agentSeq, chanSeq) ==
    /\ CanCall
    /\ CanMint(Len(agentSeq))
    /\ nCalls' = nCalls + 1
    /\ id_counter' = id_counter + Len(agentSeq)
    /\ LET new == update_ids(agentSeq, chanSeq, id_counter)
           io == [in_agents |-> agentSeq, in_channels |-> chanSeq,
                  agents |-> new.agents, channels |-> new.channels]
       IN  IF stream_id \notin DOMAIN streams
           THEN /\ done' = [Done("add_agents_and_channels", stream_id, "", AVUnit, 0, 0, 0,
                                 "StreamNotFound") EXCEPT !.out = io]
                /\ UNCHANGED <<agents, data, channels, streams>>
           ELSE LET st0 == [ret |-> "Ok", ids |-> agents, data |-> data,
                            channels |-> channels, spec |-> streams[stream_id].spec]
                    st == add_each_channel(add_each_agent(st0, stream_id, new.agents),
                                           new.channels)
                IN  /\ agents' = st.ids
                    /\ data' = st.data
                    /\ channels' = st.channels
                    /\ streams' = [streams EXCEPT ![stream_id].spec = st.spec]
                    /\ done' = [Done("add_agents_and_channels", stream_id, "", AVUnit,
                                     0, 0, 0, st.ret) EXCEPT !.out = io]
    /\ UNCHANGED call
    /\ UNCHANGED mgmtRest

\* start_agent from the host program
CallStartAgent(a) ==
    /\ CanCall
    /\ nCalls' = nCalls + 1
    /\ start_agent(a)
    /\ done' = Done("start_agent", a, "", AVUnit, 0, 0, 0, DirectResult(a))
    /\ UNCHANGED <<agents, data, board_out_agents, board_value, channels, streams, tx,
                   queue, loop, call, nCtx, nEv, nIn, log, obs, dropped>>
    /\ UNCHANGED hostVars

\* stop_agent from the host program, first block; the call keeps in list whether
\* it took a sender off the table
CallStopAgent(a) ==
    /\ CanCall
    /\ nCalls' = nCalls + 1
    /\ stop_agent_tx(a)
    /\ call' = [IdleCall EXCEPT !.op = "stop_agent", !.stage = "cb", !.id = a,
                                !.list = IF agent_txs[a] # 0 THEN <<a>> ELSE <<>>]
    /\ UNCHANGED <<agents, data, board_out_agents, board_value, channels, streams, tx,
                   queue, loop, rxClosed, worker, done, nCtx, nEv, nIn, log, obs,
                   dropped>>
    /\ UNCHANGED hostVars

\* what stop_agent returns from its second block: AgentNotFound when the agent is
\* not in the table, the error of the stop callback of an agent in status Start
stop_agent_result(a) ==
    IF a \notin agents THEN "AgentNotFound"
    ELSE IF data[a].status = "Start" /\ FailsOn(a, "stop") THEN "stop"
    ELSE "Ok"

\* stop_agent from the host program, second block
StopAgentCb ==
    /\ call.op = "stop_agent"
    /\ stop_agent_cb(call.id)
    /\ done' = Done("stop_agent", call.id, "", AVUnit, 0, 0, 0, stop_agent_result(call.id))
    /\ call' = IdleCall
    /\ UNCHANGED <<agents, agent_txs, board_value, channels, streams, tx, loop, mbox,
                   rxClosed, worker, nCalls, nCtx, nIn, dropped>>
    /\ UNCHANGED hostVars

\* remove_agent: the stream is looked up and stream.remove_agent takes the agent
\* off the spec; then remove_agent_internal, whose stop_agent begins with the
\* sender.  The call keeps the stream as it found it.
CallRemoveAgent(stream_id, a) ==
    /\ CanCall
    /\ nCalls' = nCalls + 1
    /\ IF stream_id \notin DOMAIN streams
       THEN /\ done' = [Done("remove_agent", a, "", AVUnit, 0, 0, 0, "StreamNotFound")
                           EXCEPT !.name = stream_id]
            /\ UNCHANGED <<streams, agent_txs, mbox, call>>
       ELSE /\ streams' = [streams EXCEPT ![stream_id].spec.agents =
                                              SelectSeq(@, LAMBDA x : x.id # a)]
            /\ stop_agent_tx(a)
            /\ call' = [IdleCall EXCEPT !.op = "remove_agent", !.stage = stream_id,
                                        !.id = a, !.stream = streams[stream_id]]
            /\ UNCHANGED done
    /\ UNCHANGED <<agents, data, board_out_agents, board_value, channels, tx,
                   queue, loop, rxClosed, worker, nCtx, nEv, nIn, log, obs, dropped>>
    /\ UNCHANGED hostVars

\* the rest of remove_agent_internal: the second block of stop_agent with `?`, then
\* the agent leaves the channel table and the agents table
RemoveAgentCb ==
    /\ call.op = "remove_agent"
    /\ stop_agent_cb(call.id)
    /\ LET ret == stop_agent_result(call.id) IN
       /\ done' = [Done("remove_agent", call.id, "", AVUnit, 0, 0, 0, ret)
                      EXCEPT !.name = call.stage]
       /\ IF ret = "Ok"
          THEN /\ channels' = without_agent(channels, call.id)
               /\ agents' = agents \ {call.id}
          ELSE UNCHANGED <<channels, agents>>
    /\ call' = IdleCall
    /\ UNCHANGED <<agent_txs, board_value, streams, tx, loop, mbox, rxClosed, worker,
                   nCalls, nCtx, nIn, dropped>>
    /\ UNCHANGED hostVars

RECURSIVE remove_channels(_, _)
\* remove_agent_stream's loop over the spec's channels with remove_channel_internal
remove_channels(chs, chanSeq) ==
    IF chanSeq = <<>> THEN chs
    ELSE remove_channels(remove_channel_internal(chs, Head(chanSeq)), Tail(chanSeq))

\* remove_agent_stream: the stream leaves the table; then AgentStream::stop, then
\* remove_agent_internal for every agent of the spec and remove_channel_internal
\* for every channel of the spec.  The call keeps the stream it took.
CallRemoveStream(id) ==
    /\ CanCall
    /\ nCalls' = nCalls + 1
    /\ IF id \notin DOMAIN streams
       THEN /\ done' = Done("remove_agent_stream", id, "", AVUnit, 0, 0, 0, "StreamNotFound")
            /\ UNCHANGED <<streams, channels, call>>
       ELSE IF StopList(streams[id]) = <<>>
       THEN /\ streams' = WithoutStream(id)
            /\ channels' = remove_channels(channels, streams[id].spec.channels)
            /\ done' = Done("remove_agent_stream", id, "", AVUnit, 0, 0, 0, "Ok")
            /\ UNCHANGED call
       ELSE /\ streams' = WithoutStream(id)
            /\ call' = [IdleCall EXCEPT !.op = "remove_agent_stream", !.stage = "stop_tx",
                           !.id = id, !.stream = streams[id],
                           !.list = StopList(streams[id])]
            /\ UNCHANGED <<done, channels>>
    /\ UNCHANGED <<agents, data, agent_txs, board_out_agents, board_value, tx,
                   queue, loop, mbox, rxClosed, worker, nCtx, nEv, nIn, log, obs, dropped>>
    /\ UNCHANGED hostVars

\* the first block of a stop_agent of remove_agent_stream: within AgentStream::stop
\* (stage stop_tx) or at the head of remove_agent_internal (stage rm_tx)
RemoveStreamTx ==
    /\ call.op = "remove_agent_stream"
    /\ call.stage \in {"stop_tx", "rm_tx"}
    /\ stop_agent_tx(Head(call.list))
    /\ call' = [call EXCEPT !.stage = IF call.stage = "stop_tx" THEN "stop_cb" ELSE "rm_cb"]
    /\ UNCHANGED <<agents, data, board_out_agents, board_value, channels, streams, tx,
                   queue, loop, rxClosed, worker, done, nCalls, nCtx, nEv, nIn, log, obs,
                   dropped>>
    /\ UNCHANGED hostVars

\* the second block of a stop_agent of AgentStream::stop; its error is logged.  After
\* the last agent the loop over remove_agent_internal begins.
RemoveStreamStopCb ==
    /\ call.op = "remove_agent_stream"
    /\ call.stage = "stop_cb"
    /\ stop_agent_cb(Head(call.list))
    /\ call' = IF Tail(call.list) = <<>>
               THEN [call EXCEPT !.stage = "rm_tx", !.list = StopList(call.stream)]
               ELSE [call EXCEPT !.stage = "stop_tx", !.list = Tail(@)]
    /\ UNCHANGED <<agents, agent_txs, board_value, channels, streams, tx, loop, mbox,
                   rxClosed, worker, done, nCalls, nCtx, nIn, dropped>>
    /\ UNCHANGED hostVars

\* the rest of a remove_agent_internal of remove_agent_stream: the second block of
\* stop_agent with `?`, then the agent leaves the channel table and the agents
\* table; its error is logged.  After the last agent the channels of the spec
\* leave the channel table and the call returns.
RemoveStreamRmCb ==
    /\ call.op = "remove_agent_stream"
    /\ call.stage = "rm_cb"
    /\ stop_agent_cb(Head(call.list))
    /\ LET a == Head(call.list)
           ok == stop_agent_result(a) = "Ok"
           chs == IF ok THEN without_agent(channels, a) ELSE channels
       IN  /\ agents' = IF ok THEN agents \ {a} ELSE agents
           /\ IF Tail(call.list) = <<>>
              THEN /\ channels' = remove_channels(chs, call.stream.spec.channels)
                   /\ call' = IdleCall
                   /\ done' = Done("remove_agent_stream", call.id, "", AVUnit, 0, 0, 0, "Ok")
              ELSE /\ channels' = chs
                   /\ call' = [call EXCEPT !.stage = "rm_tx", !.list = Tail(@)]
                   /\ UNCHANGED done
    /\ UNCHANGED <<agent_txs, board_value, streams, tx, loop, mbox, rxClosed, worker,
                   nCalls, nCtx, nIn, dropped>>
    /\ UNCHANGED hostVars

\* the inputs of the management calls: a stream in the table and one that may not
\* be; a channel of the table, a new one, one to an agent without an instance, one
\* with an empty pin, one of no stream
HubStreams == {"s1", "s2"}

ChannelMenu == { ChannelSpec("a1", PIN_COUNT, "a2", "value"),
                 ChannelSpec("a2", "out", "a3", "in"),
                 ChannelSpec("a1", PIN_COUNT, "a4", "value"),
                 ChannelSpec("a2", "", "a3", "in") }

AgentMenu == { AgentSpec("a1", "Counter", SomeConfigs(<<>>), FALSE),
               AgentSpec("a2", "Unregistered", NoConfigs, FALSE) }

\* sub-graphs given to add_agents_and_channels and add_agent_stream: two agents with
\* a channel between them and one to an agent outside; an agent followed by one of
\* an unregistered definition; three agents and the same channel twice
SubGraphs ==
    { [agents   |-> << AgentSpec("a4", "Counter", SomeConfigs(<<>>), FALSE),
                       AgentSpec("a5", "TestProbe", NoConfigs, FALSE) >>,
       channels |-> << ChannelSpec("a4", PIN_COUNT, "a5", "value"),
                       ChannelSpec("a4", PIN_COUNT, "a1", "value") >>],
      [agents   |-> << AgentSpec("a1", "Counter", SomeConfigs(<<>>), FALSE),
                       AgentSpec("a2", "Unregistered", NoConfigs, FALSE) >>,
       channels |-> <<>>],
      [agents   |-> << AgentSpec("a1", "Counter", SomeConfigs(<<>>), FALSE),
                       AgentSpec("a2", "TestProbe", NoConfigs, FALSE),
                       AgentSpec("a3", "TestProbe", NoConfigs, FALSE) >>,
       channels |-> << ChannelSpec("a1", PIN_COUNT, "a2", "value"),
                       ChannelSpec("a1", PIN_COUNT, "a2", "value") >>] }

\* the hub of a host program that has added its streams and called ready()
HubInit ==
    \E hub \in {Hub("routing"), add_agent_streams(NewHub, FaultyStreams("stop"), <<"s1">>)} :
        /\ Fresh(hub, 0, 1)
        /\ tx = TRUE
        /\ readied = 1

\* the management calls and the agents' tasks; no event is sent, so a task leaves
\* its loop only on a Stop
HubNext ==
    \/ \E m \in Mailboxes : WorkerStart(m) \/ WorkerRecv(m)
    \/ \E s \in HubStreams, spec \in AgentMenu : CallAddAgent(s, spec)
    \/ \E s \in HubStreams, channel \in ChannelMenu : CallAddChannel(s, channel)
    \/ \E s \in HubStreams, channel \in ChannelMenu : CallRemoveChannel(s, channel)
    \/ \E g \in SubGraphs : CallAddAgentStream("s", g)
    \/ \E s \in HubStreams, g \in SubGraphs :
          CallAddAgentsAndChannels(s, g.agents, g.channels)
    \/ \E a \in AgentIds : CallStartAgent(a)
    \/ \E a \in AgentIds : CallStopAgent(a)
    \/ StopAgentCb
    \/ \E s \in HubStreams, a \in AgentIds : CallRemoveAgent(s, a)
    \/ RemoveAgentCb
    \/ \E s \in HubStreams : CallRemoveStream(s)
    \/ RemoveStreamTx
    \/ RemoveStreamStopCb
    \/ RemoveStreamRmCb

HubSpec == HubInit /\ [][HubNext]_vars

-----------------------------------------------------------------------------
(* Properties.                                                             *)

IsPrefix(s, t) == Len(s) <= Len(t) /\ SubSeq(t, 1, Len(s)) = s

\* C1: for a source S, a pin p and a target T, within one run of T's worker: if S's
\* output A on p was accepted into the event queue before its output B on p, then
\* T's process is invoked with A before it is invoked with B.
C1_Fifo ==
    \A t \in AgentIds : \A i, j \in 1..Len(log[t]) :
        ( /\ i < j
          /\ log[t][i].op = "process" /\ log[t][j].op = "process"
          /\ log[t][i].src \in AgentIds
          /\ log[t][i].src = log[t][j].src
          /\ log[t][i].spin = log[t][j].spin
          /\ log[t][i].mb = log[t][j].mb )
        => log[t][i].ev <= log[t][j].ev

\* two outputs of one source on one pin have been processed by one target
C1_Witness ==
    \E t \in AgentIds : \E i, j \in 1..Len(log[t]) :
        /\ i < j
        /\ log[t][i].op = "process" /\ log[t][j].op = "process"
        /\ log[t][i].src \in AgentIds
        /\ log[t][i].src = log[t][j].src
        /\ log[t][i].spin = log[t][j].spin
        /\ log[t][i].pin = log[t][j].pin
        /\ log[t][i].mb = log[t][j].mb
        /\ log[t][i].ev < log[t][j].ev

RECURSIVE Expected(_, _, _)
\* the agent_input calls that the entries of a channel list ask for, for an AgentOut
\* event e: one per entry whose source pin is e.pin or "*" (with present: and whose
\* target is in the agents table), under the target pin, or e.pin for "*"
Expected(entries, e, present) ==
    IF entries = <<>> THEN <<>>
    ELSE LET x == Head(entries)
             rest == Expected(Tail(entries), e, present)
         IN  IF (x[2] = e.pin \/ x[2] = "*") /\ (present => x[1] \in agents)
             THEN <<[target |-> x[1], ctx |-> e.ctx,
                     pin |-> IF x[3] = "*" THEN e.pin ELSE x[3],
                     value |-> e.value]>> \o rest
             ELSE rest

\* C2 (amended): processing an AgentOut event makes, for each entry of the source's
\* channel list taken in list order whose target is in the agents table, exactly one
\* agent_input(target, ctx, eff_pin, value) when src_pin is the pin or "*", and none
\* for another src_pin: the calls made so far and those the entries still to visit
\* ask for are together the calls the whole list asks for.
C2_Routing ==
    loop.ev.type = "AgentOut"
    => loop.calls \o Expected(loop.todo, loop.ev, TRUE) = Expected(loop.snap, loop.ev, TRUE)

\* C2 as stated: one agent_input for each entry with a matching source pin, whether
\* or not its target is in the agents table
C2_AsStated ==
    (loop.ev.type = "AgentOut" /\ loop.pc = "recv")
    => loop.calls = Expected(loop.snap, loop.ev, FALSE)

\* an event on a pin that only the "*" entries match has been routed: the entries of
\* another source pin got nothing, the "*" -> "*" entry delivered the pin unchanged
C2_Witness ==
    /\ loop.ev.type = "AgentOut"
    /\ loop.pc = "recv"
    /\ \E k \in 1..Len(loop.snap) : loop.snap[k][2] \notin {loop.ev.pin, "*"}
    /\ \E k \in 1..Len(loop.snap) : loop.snap[k][2] = "*" /\ loop.snap[k][3] = "*"
    /\ \E i \in 1..Len(loop.calls) : loop.calls[i].pin = loop.ev.pin
    /\ \E i \in 1..Len(loop.calls) : loop.calls[i].pin # loop.ev.pin

\* the agent_input calls that a mailbox has taken and not lost: those its worker has
\* applied, then those waiting in it
Applied(m) ==
    LET l == log[worker[m].agent]
        mine == SelectSeq(l, LAMBDA x : x.mb = m /\ x.op \in {"process", "set_config"})
    IN  [i \in 1..Len(mine) |-> mine[i].d]
Waiting(box) ==
    LET msgs == SelectSeq(box, LAMBDA x : x.type # "Stop")
    IN  [i \in 1..Len(msgs) |-> msgs[i].d]
Taken(m) == Applied(m) \o Waiting(mbox[m])

\* C3, in a state: process is never invoked for a config pin; after an agent_input
\* with pin "config:k" and value v has returned Ok, set_config(k, v) has been applied
\* if the agent had no mailbox, and else a Config{k, v} is in the mailbox or has been
\* applied by its worker
C3_Applied ==
    /\ \A a \in AgentIds : \A i \in 1..Len(log[a]) :
          log[a][i].op = "process" => ~starts_with(log[a][i].pin, "config:")
    /\ (done.op = "agent_input" /\ starts_with(done.pin, "config:") /\ done.ret = "Ok")
       => LET k == SubSeq(done.pin, 8, Len(done.pin))
              isIt(x) == x.d = done.d /\ x.pin = k /\ x.value = done.value
          IN  IF done.mb = 0
              THEN \E i \in 1..Len(log[done.id]) :
                      /\ log[done.id][i].op = "set_config"
                      /\ log[done.id][i].mb = 0
                      /\ isIt(log[done.id][i])
              ELSE \/ \E i \in 1..Len(mbox[done.mb]) :
                         mbox[done.mb][i].type = "Config" /\ isIt(mbox[done.mb][i])
                   \/ \E i \in 1..Len(log[done.id]) :
                         /\ log[done.id][i].op = "set_config"
                         /\ log[done.id][i].mb = done.mb
                         /\ isIt(log[done.id][i])

\* C3, in a step: the worker applies the messages of its mailbox in the order in
\* which the mailbox took them
C3_InOrder ==
    \A m \in Mailboxes : IsPrefix(Taken(m), Taken(m)') \/ IsPrefix(Taken(m)', Taken(m))

\* C3: agent_input(id, ctx, "config:k", v) never invokes process and results in
\* set_config(k, v): applied when agent_input returns for an agent without a mailbox,
\* else enqueued as Config{k, v} and applied by the worker in mailbox order.
C3_Config == []C3_Applied /\ [][C3_InOrder]_vars

\* an agent has had a config applied directly and, once running, another through
\* its mailbox
C3_Witness ==
    \E a \in AgentIds : \E i, j \in 1..Len(log[a]) :
        /\ log[a][i].op = "set_config" /\ log[a][i].mb = 0
        /\ log[a][j].op = "set_config" /\ log[a][j].mb > 0

\* C4: an agent_input with a non-config pin for an existing agent without a mailbox
\* returns Ok, puts nothing into any mailbox, never has process invoked for it (also
\* not after a later start) and emits no AgentIn.
C4_Dropped ==
    \A x \in dropped :
        /\ \A m \in Mailboxes : \A i \in 1..Len(mbox[m]) : mbox[m][i].d # x.d
        /\ \A a \in AgentIds : \A i \in 1..Len(log[a]) : log[a][i].d # x.d
        /\ \A o \in obs : o.type = "AgentIn" => o.n # x.d
        /\ loop.msg.d # x.d /\ call.msg.d # x.d
        /\ (done.op = "agent_input" /\ done.d = x.d) => done.ret = "Ok"

\* an agent that dropped an input was started later and has processed a later input
C4_Witness ==
    \E x \in dropped : \E i \in 1..Len(log[x.agent]) :
        /\ log[x.agent][i].op = "process"
        /\ log[x.agent][i].d > x.d
        /\ data[x.agent].status = "Start"

\* C5: a channel whose target is not in the agents table when an AgentOut event is
\* routed is skipped without an error: no agent_input is made for it, no AgentError
\* names it, and once the event is done every other matching channel of the list has
\* had its agent_input.
C5_AbsentTarget ==
    loop.ev.type = "AgentOut"
    => /\ \A i \in 1..Len(loop.calls) : loop.calls[i].target \in agents
       /\ \A o \in obs : o.type = "AgentError" => o.name \in agents
       /\ loop.pc = "recv"
          => \A k \in 1..Len(loop.snap) :
                LET x == loop.snap[k] IN
                ((x[2] = loop.ev.pin \/ x[2] = "*") /\ x[1] \in agents)
                => \E i \in 1..Len(loop.calls) :
                      /\ loop.calls[i].target = x[1]
                      /\ loop.calls[i].pin = IF x[3] = "*" THEN loop.ev.pin ELSE x[3]

\* a second event has been routed past a matching channel with an absent target, the
\* channels after that one delivered, after a first event that met the same channel
C5_Witness ==
    /\ loop.ev.type = "AgentOut"
    /\ loop.pc = "recv"
    /\ loop.ev.ev >= 2
    /\ \E k \in 1..Len(loop.snap) :
          /\ loop.snap[k][2] = loop.ev.pin
          /\ loop.snap[k][1] \notin agents
          /\ \E n \in (k + 1)..Len(loop.snap) : \E i \in 1..Len(loop.calls) :
                loop.calls[i].target = loop.snap[n][1]
    /\ \E t \in AgentIds : \E i \in 1..Len(log[t]) :
          /\ log[t][i].op = "process"
          /\ log[t][i].src = loop.ev.name
          /\ log[t][i].spin = loop.ev.pin
          /\ log[t][i].ev < loop.ev.ev
          /\ log[t][i].ev > 0

\* the streams of the hub: those in the table and the one a stream call holds
AllStreams ==
    {streams[s] : s \in DOMAIN streams}
    \cup (IF call.op \in {"start_agent_stream", "stop_agent_stream"} THEN {call.stream} ELSE {})

\* the ids of the agents that have had a worker
Spawned == {worker[m].agent : m \in Mailboxes}

\* C6: start_agent_stream(id) calls start_agent for exactly the agents of the spec
\* whose disabled flag is false, in spec order: every worker belongs to such an
\* agent, the workers of two of them were spawned in spec order, and in a running
\* stream each of them that start_agent found in status Init has its mailbox; an
\* agent with disabled == true has no mailbox, stays in status Init and is sent
\* no message.
C6_Disabled ==
    \A st \in AllStreams : \A i \in 1..Len(st.spec.agents) :
        LET x == st.spec.agents[i] IN
        IF x.disabled
        THEN /\ agent_txs[x.id] = 0
             /\ data[x.id].status = "Init"
             /\ x.id \notin Spawned
             /\ \A k \in 1..Len(log[x.id]) :
                   log[x.id][k].op = "set_config" /\ log[x.id][k].mb = 0
        ELSE /\ \A j \in (i + 1)..Len(st.spec.agents) :
                   LET y == st.spec.agents[j] IN
                   (~y.disabled /\ x.id \in agents)
                   => \A m2 \in Mailboxes :
                         worker[m2].agent = y.id
                         => \E m1 \in 1..(m2 - 1) : worker[m1].agent = x.id
             /\ (st.running /\ st \in {streams[s] : s \in DOMAIN streams} /\ x.id \in agents)
                => (agent_txs[x.id] # 0 \/ data[x.id].status # "Init")

\* a stream with a disabled agent runs: its enabled agents are started, one of them
\* has processed a value of an event, and the disabled agent's copy was dropped
C6_Witness ==
    \E s \in DOMAIN streams : \E i, j \in 1..Len(streams[s].spec.agents) :
        LET x == streams[s].spec.agents[i]
            y == streams[s].spec.agents[j]
        IN  /\ streams[s].running
            /\ x.disabled /\ ~y.disabled
            /\ data[y.id].status = "Start" /\ agent_txs[y.id] # 0
            /\ \E k \in 1..Len(log[y.id]) :
                  /\ log[y.id][k].op = "process"
                  /\ \E z \in dropped : z.agent = x.id /\ z.ev = log[y.id][k].ev /\ z.ev > 0

\* a start_agent_stream(id) is issued in this step
StartIssued(id) ==
    /\ nCalls' = nCalls + 1
    /\ \/ call'.op = "start_agent_stream" /\ call'.id = id
       \/ call' = IdleCall /\ done'.op = "start_agent_stream" /\ done'.id = id

\* C7: start_agent_stream on a stream that is already running returns Ok at once and
\* changes nothing: no start callback, no mailbox created or replaced, no worker
\* spawned, and the stream stays running.
C7_StartTwice ==
    [][ \A id \in StreamIds :
          (StartIssued(id) /\ id \in DOMAIN streams /\ streams[id].running)
          => /\ call' = IdleCall
             /\ done'.ret = "Ok"
             /\ streams'[id].running
             /\ UNCHANGED <<agents, data, agent_txs, board_out_agents, board_value,
                            channels, streams, queue, loop, mbox, rxClosed, worker,
                            log, obs>> ]_vars

\* a start_agent_stream has just returned from a stream it found running
C7_Witness ==
    /\ call = IdleCall
    /\ done.op = "start_agent_stream"
    /\ done.ret = "Ok"
    /\ done.running
    /\ streams[done.id].running
    /\ \E m \in Mailboxes : data[worker[m].agent].stream_id = done.id

\* C8 as stated: after stop_agent_stream(id) has completed, every agent of the stream
\* that had been started has no mailbox sender and status Init, and the stream's
\* running flag is false.
C8_AsStated ==
    (call = IdleCall /\ done.op = "stop_agent_stream" /\ done.ret = "Ok")
    => /\ ~streams[done.id].running
       /\ \A i \in 1..Len(streams[done.id].spec.agents) :
             LET a == streams[done.id].spec.agents[i].id IN
             a \in Spawned => (agent_txs[a] = 0 /\ data[a].status = "Init")

\* the agent_input calls that board_out makes for the edges of one subscriber
EdgeCalls(entries, e) ==
    [i \in 1..Len(entries) |->
        [target |-> entries[i][1], ctx |-> e.ctx,
         pin |-> IF entries[i][3] = "*" THEN e.name ELSE entries[i][3],
         value |-> e.value]]

RECURSIVE BoardCalls(_, _)
\* and for the subscribers of a board, in their order
BoardCalls(nodes, e) ==
    IF nodes = <<>> THEN <<>>
    ELSE EdgeCalls(IF Head(nodes) \in DOMAIN channels THEN channels[Head(nodes)] ELSE <<>>, e)
         \o BoardCalls(Tail(nodes), e)

\* the agent has had one worker, and its mailbox sender is in the table
RunningSince(t) ==
    /\ t \in agents
    /\ agent_txs[t] # 0
    /\ \A m \in Mailboxes : worker[m].agent = t => m = agent_txs[t]

\* C9: the value v that a running BoardIn agent processes goes out as a BoardOut
\* event with the same context; when the Board(b, v) observer event of an event is
\* there, agent_input has been called with v and that context for every target wired
\* from the BoardOut agents subscribed to b, and for a target that has been running
\* since, the value is in its mailbox or processed (or was dropped before it ran).
C9_Board ==
    /\ \A a \in AgentIds : \A i \in 1..Len(log[a]) :
          LET x == log[a][i]
              isIt(e) == /\ e.type = "BoardOut" /\ e.ev = x.out
                         /\ e.ctx = x.ctx /\ e.value = x.value
          IN  (data[a].def_name = "BoardIn" /\ x.op = "process" /\ x.out > 0)
              => \/ \E k \in 1..Len(queue) : isIt(queue[k])
                 \/ isIt(loop.ev)
                 \/ \E o \in obs : o.type = "Board" /\ o.n = x.out /\ o.value = x.value
    /\ loop.ev.type = "BoardOut"
       => /\ loop.pc = "recv" <=> \E o \in obs : o.type = "Board" /\ o.n = loop.ev.ev
          /\ \A o \in obs :
                (o.type = "Board" /\ o.n = loop.ev.ev)
                => /\ o.name = loop.ev.name
                   /\ o.value = loop.ev.value
                   /\ loop.calls = BoardCalls(loop.snap, loop.ev)
                   /\ \A i \in 1..Len(loop.calls) :
                         LET c == loop.calls[i]
                             isIt(x) == /\ x.ev = loop.ev.ev /\ x.pin = c.pin
                                        /\ x.ctx = c.ctx /\ x.value = c.value
                         IN  RunningSince(c.target)
                             => \/ \E k \in 1..Len(mbox[agent_txs[c.target]]) :
                                      isIt(mbox[agent_txs[c.target]][k])
                                \/ \E k \in 1..Len(log[c.target]) :
                                      log[c.target][k].op = "process" /\ isIt(log[c.target][k])
                                \/ \E z \in dropped :
                                      /\ z.agent = c.target /\ z.ev = loop.ev.ev
                                      /\ z.pin = c.pin

\* a BoardIn agent has processed a value, the event went to two subscribed BoardOut
\* agents, the target of each has processed the value with the context, and Board
\* is emitted
C9_Witness ==
    \E a \in AgentIds : \E i \in 1..Len(log[a]) :
        LET x == log[a][i] IN
        /\ data[a].def_name = "BoardIn" /\ x.op = "process" /\ x.out > 0
        /\ loop.ev.ev = x.out
        /\ Len(loop.snap) = 2
        /\ Len(loop.calls) = 2
        /\ \E o \in obs : o.type = "Board" /\ o.n = x.out /\ o.name = data[a].name
        /\ \A c \in 1..Len(loop.calls) : \E k \in 1..Len(log[loop.calls[c].target]) :
              LET y == log[loop.calls[c].target][k] IN
              /\ y.op = "process" /\ y.ev = x.out
              /\ y.ctx = x.ctx /\ y.value = x.value

\* C10 as stated: the VarOut agents of stream S subscribe under the board name
\* "%S/x" that write_var_value(S, x, v) writes to, so that the value reaches the
\* targets of the started VarOut agents with variable name x in stream S.
C10_AsStated ==
    \A a \in agents :
        (data[a].def_name = "VarOut" /\ data[a].status = "Start" /\ data[a].name # None)
        => LET board == "%" \o data[a].stream_id \o "/" \o data[a].name IN
           /\ board \in DOMAIN board_out_agents
           /\ \E k \in 1..Len(board_out_agents[board]) : board_out_agents[board][k] = a

\* the hub is at rest: no event is queued or being routed, no hub call is under way
Quiescent == queue = <<>> /\ loop.pc = "recv" /\ call.op = "idle"

\* a value that agent a emitted on its "err" pin has reached t: it is in t's
\* mailbox or t has processed it
ErrReceived(t, a) ==
    \/ \E k \in 1..Len(mbox[agent_txs[t]]) :
          mbox[agent_txs[t]][k].src = a /\ mbox[agent_txs[t]][k].spin = "err"
    \/ \E k \in 1..Len(log[t]) :
          log[t][k].op = "process" /\ log[t][k].src = a /\ log[t][k].spin = "err"

\* C11 as stated: when an agent's process has returned an error (the observers
\* have its AgentError) and the hub is at rest again, every agent that is wired to
\* the failing agent's "err" pin (by that pin or by "*") and has been running all
\* along has received a value from that pin.
C11_AsStated ==
    Quiescent =>
    \A a \in agents : \A i \in 1..Len(log[a]) :
        ( /\ log[a][i].op = "process"
          /\ \E o \in obs : o.type = "AgentError" /\ o.name = a /\ o.n = log[a][i].d )
        => \A k \in 1..Len(ChannelsOf(a)) :
              LET t == ChannelsOf(a)[k][1] IN
              (ChannelsOf(a)[k][2] \in {"err", "*"} /\ RunningSince(t))
              => ErrReceived(t, a)

\* the start and stop callbacks invoked on an agent, in order
Lifecycle(a) == SelectSeq(log[a], LAMBDA x : x.op \in {"start", "stop"})

\* C16 as stated: an agent on which no callback has run has status Init; after a
\* start whose implementation succeeded it has status Start; after a stop it has
\* status Init, whether the implementation's stop succeeded or returned an error.
C16_AsStated ==
    \A a \in agents :
        LET life == Lifecycle(a) IN
        IF life = <<>> THEN data[a].status = "Init"
        ELSE IF life[Len(life)].op = "stop" THEN data[a].status = "Init"
        ELSE ~FailsOn(a, "start") => data[a].status = "Start"

\* C17 as stated: when the worker of an agent has run the start callback, the
\* callback has failed and the worker has returned, the mailbox table holds no
\* sender of that worker's mailbox, and the agent's status is Init unless a later
\* callback changed it.
C17_AsStated ==
    \A m \in Mailboxes :
        LET a == worker[m].agent
            life == Lifecycle(a)
        IN  (worker[m].pc = "done" /\ FailsOn(a, "start"))
            => /\ agent_txs[a] # m
               /\ (life[Len(life)].op = "start" /\ life[Len(life)].mb = m)
                  => data[a].status = "Init"

\* the hub calls that send an event
SenderOps == {"send_agent_out", "try_send_agent_out", "write_board_value", "write_var_value"}

\* a step in which a call that sends an event returns
SenderReturns == done' # done /\ done'.op \in SenderOps

\* C19: the event sender is absent before ready(), present from ready() to quit()
\* and absent after quit(); a send_agent_out, try_send_agent_out, write_board_value
\* or write_var_value returns TxNotInitialized exactly when the sender is absent,
\* and then no event is queued, counted, routed or shown to the observers.
C19_TxLifecycle ==
    /\ [](readied = 0 => ~tx)
    /\ [][ /\ tx' # tx => \/ (done'.op = "ready" /\ tx')
                           \/ (done'.op = "quit" /\ ~tx')
           /\ (done' # done /\ done'.op = "ready") => tx'
           /\ (done' # done /\ done'.op = "quit") => ~tx'
           /\ SenderReturns => /\ (done'.ret = "TxNotInitialized") <=> ~tx
                               /\ (done'.ret = "TxNotInitialized")
                                  => UNCHANGED <<queue, nEv, loop, mbox, obs, board_value>>
         ]_vars

\* after ready() an event was accepted, and after quit() write_var_value has
\* returned TxNotInitialized
C19_Witness ==
    /\ readied = 1 /\ ~tx /\ nEv > 0
    /\ done.op = "write_var_value" /\ done.ret = "TxNotInitialized"

-----------------------------------------------------------------------------
(* The channel table and the management calls.                             *)

\* the step is a whole hub call named op: it begins and returns in one step
IsCallStep(op) ==
    /\ nCalls' = nCalls + 1
    /\ call.op = "idle"
    /\ call'.op = "idle"
    /\ done'.op = op

\* the channel table chs has an entry for the quadruple of channel c
HasEntry(chs, c) ==
    /\ c.source \in DOMAIN chs
    /\ \E i \in 1..Len(chs[c.source]) : chs[c.source][i] = Entry(c)

\* no list of the table is empty or holds an entry twice
NoDuplicateEntry ==
    \A s \in DOMAIN channels :
        /\ channels[s] # <<>>
        /\ \A i, j \in 1..Len(channels[s]) : channels[s][i] = channels[s][j] => i = j

\* an add_channel that gets as far as add_channel_internal with a quadruple of the
\* table returns ChannelAlreadyExists and leaves the table as it is
AddOfPresent ==
    IsCallStep("add_channel") /\ done'.ret \in {"Ok", "ChannelAlreadyExists"}
    /\ HasEntry(channels, done'.out.in_channels[1])
    => done'.ret = "ChannelAlreadyExists" /\ channels' = channels

\* a remove_channel that returns Ok leaves no entry for the quadruple, every other
\* entry where it was, and no key for a source whose list became empty
RemoveOfPresent ==
    IsCallStep("remove_channel") /\ done'.ret = "Ok"
    => LET c == done'.out.in_channels[1] IN
       /\ ~HasEntry(channels', c)
       /\ DOMAIN channels' \subseteq DOMAIN channels
       /\ \A s \in DOMAIN channels \ {c.source} :
             s \in DOMAIN channels' /\ channels'[s] = channels[s]
       /\ c.source \in DOMAIN channels =>
             LET others == SelectSeq(channels[c.source], LAMBDA e : e # Entry(c)) IN
             IF others = <<>> THEN c.source \notin DOMAIN channels'
             ELSE c.source \in DOMAIN channels' /\ channels'[c.source] = others

\* C12: the channel table never holds a quadruple (source, source pin, target,
\* target pin) twice: adding a quadruple that is in the table returns
\* ChannelAlreadyExists and leaves the table unchanged; removing a quadruple leaves
\* no entry for it, leaves every other entry in place and removes the source key
\* when its list becomes empty.
C12_ChannelTable ==
    /\ []NoDuplicateEntry
    /\ [][AddOfPresent /\ RemoveOfPresent]_vars

\* an add_channel of a quadruple of the table has returned ChannelAlreadyExists
C12_Witness ==
    /\ done.op = "add_channel"
    /\ done.ret = "ChannelAlreadyExists"
    /\ HasEntry(channels, done.out.in_channels[1])

\* a remove_channel has taken the last entry of a source, and the key with it
C12_Pruned ==
    /\ done.op = "remove_channel"
    /\ done.ret = "Ok"
    /\ done.out.in_channels[1].source \notin DOMAIN channels

\* the agents outA and channels outC are a rewriting of the agents inA and channels
\* inC: the same agents under ids that differ from every input id and from each
\* other, the channels between input agents under the new ids of their two agents
\* with their pins, and no other channel
Rewritten(inA, inC, outA, outC) ==
    LET inIds == Range(Ids(inA))
        idx(id) == CHOOSE i \in 1..Len(inA) : inA[i].id = id
        kept == SelectSeq(inC, LAMBDA ch : ch.source \in inIds /\ ch.target \in inIds)
    IN  /\ Len(outA) = Len(inA)
        /\ \A i \in 1..Len(inA) : outA[i] = [inA[i] EXCEPT !.id = outA[i].id]
        /\ \A i \in 1..Len(outA) : outA[i].id \notin inIds
        /\ \A i, j \in 1..Len(outA) : outA[i].id = outA[j].id => i = j
        /\ Len(outC) = Len(kept)
        /\ \A i \in 1..Len(kept) :
              outC[i] = [kept[i] EXCEPT !.source = outA[idx(kept[i].source)].id,
                                        !.target = outA[idx(kept[i].target)].id]

\* C13: id rewriting, as add_agent_stream and add_agents_and_channels use it, gives
\* every input agent a fresh id that differs from every input id and from the
\* other fresh ids, maps each channel between two input agents to the fresh ids
\* of those agents with its pins unchanged, and drops every channel with an
\* endpoint outside the input set.
C13_AsStated ==
    /\ done.op = "add_agents_and_channels"
       => Rewritten(done.out.in_agents, done.out.in_channels,
                    done.out.agents, done.out.channels)
    /\ done.op = "add_agent_stream" /\ done.ret = "Ok"
       => Rewritten(done.out.in_agents, done.out.in_channels,
                    streams[done.id].spec.agents, streams[done.id].spec.channels)

\* C13, the part that is about update_ids alone
C13_UpdateIds ==
    done.op = "add_agents_and_channels"
    => Rewritten(done.out.in_agents, done.out.in_channels,
                 done.out.agents, done.out.channels)

\* C13, update_ids without the comparison of the fresh ids with the input ids
C13_UpdateIdsAmongThemselves ==
    done.op = "add_agents_and_channels"
    => LET inA == done.out.in_agents
           outA == done.out.agents
           idx(id) == CHOOSE i \in 1..Len(inA) : inA[i].id = id
           kept == SelectSeq(done.out.in_channels,
                             LAMBDA ch : /\ ch.source \in Range(Ids(inA))
                                         /\ ch.target \in Range(Ids(inA)))
       IN  /\ Len(outA) = Len(inA)
           /\ \A i, j \in 1..Len(outA) : outA[i].id = outA[j].id => i = j
           /\ done.out.channels =
                 [i \in 1..Len(kept) |->
                     [kept[i] EXCEPT !.source = outA[idx(kept[i].source)].id,
                                     !.target = outA[idx(kept[i].target)].id]]

\* a failing add_channel leaves the stream's spec and the channel table unchanged
FailedAddChannel ==
    IsCallStep("add_channel") /\ done'.ret # "Ok"
    => streams' = streams /\ channels' = channels

\* a failing add_agents_and_channels leaves none of its agents or channels in the
\* tables or in the stream's spec
FailedAddAgentsAndChannels ==
    IsCallStep("add_agents_and_channels") /\ done'.ret # "Ok"
    => agents' = agents /\ channels' = channels /\ streams' = streams

\* a failing remove_agent leaves the agent in the agents table and in the spec of
\* the stream, where the call found it
FailedRemoveAgent ==
    call.op = "remove_agent" /\ call'.op = "idle" /\ done'.ret # "Ok"
    => /\ agents' = agents
       /\ streams'[call.stage].spec.agents = call.stream.spec.agents

\* C20: a hub method that returns an error leaves the hub state as it was before
\* the call: a failing add_channel leaves the stream's spec and the channel table
\* unchanged, a failing add_agents_and_channels leaves none of its agents or
\* channels inserted, a failing remove_agent leaves the agent in the agents table
\* and in the stream's spec.
C20_AsStated ==
    [][FailedAddChannel /\ FailedAddAgentsAndChannels /\ FailedRemoveAgent]_vars

\* C20, the part about add_channel alone
C20_AddChannelPart == [][FailedAddChannel]_vars

\* C20, the part about add_agents_and_channels alone
C20_AddAgentsAndChannelsPart == [][FailedAddAgentsAndChannels]_vars

\* C20, the part about remove_agent alone
C20_RemoveAgentPart == [][FailedRemoveAgent]_vars

\* the step is the return of a stop_agent that found no sender for its agent: the
\* agent was not running, or a stop_agent for it had completed, or it was removed
StopOfStopped == call.op = "stop_agent" /\ call'.op = "idle" /\ call.list = <<>>

\* C18: stop_agent is idempotent: for an agent that is not running, or a second
\* time after a completed stop, it returns success, does not invoke the stop
\* callback and leaves the agent's status and the hub tables as they were; for an
\* id whose agent has been removed it is not an error either.
C18_AsStated ==
    [][StopOfStopped
       => /\ done'.ret = "Ok"
          /\ log' = log
          /\ data' = data
          /\ <<agents, agent_txs, channels, streams>>' = <<agents, agent_txs, channels, streams>>]_vars

\* C18 for the agents that are in the agents table
C18_InTable ==
    [][StopOfStopped /\ call.id \in agents
       => /\ done'.ret = "Ok"
          /\ log' = log
          /\ data' = data
          /\ <<agents, agent_txs, channels, streams>>' = <<agents, agent_txs, channels, streams>>]_vars

\* C18 without the callback and the status: stop_agent for an agent of the table
\* that has no sender returns success and leaves the tables as they were
C18_ReturnsOk ==
    [][StopOfStopped /\ call.id \in agents
       => /\ done'.ret \in {"Ok", "stop"}
          /\ <<agents, agent_txs, channels, streams>>' = <<agents, agent_txs, channels, streams>>]_vars

-----------------------------------------------------------------------------
(* Stream names.                                                           *)

\* the i-th character of a name
CharAt(name, i) == SubSeq(name, i, i)

\* the name is empty or made of blanks
IsBlank(name) == \A i \in 1..Len(name) : CharAt(name, i) = " "

\* the name has a leading, a trailing or two consecutive '/'
HasBadSlash(name) ==
    /\ Len(name) > 0
    /\ \/ CharAt(name, 1) = "/"
       \/ CharAt(name, Len(name)) = "/"
       \/ \E i \in 1..(Len(name) - 1) : CharAt(name, i) = "/" /\ CharAt(name, i + 1) = "/"

\* a stretch of the name between two '/' or an end of the name is "." or ".."
HasDotSegment(name) ==
    \E i \in 1..Len(name), j \in 1..Len(name) :
        /\ i <= j
        /\ \A n \in i..j : CharAt(name, n) = "."
        /\ j - i < 2
        /\ i = 1 \/ CharAt(name, i - 1) = "/"
        /\ j = Len(name) \/ CharAt(name, j + 1) = "/"

\* the name holds one of \ : * ? " < > |
HasInvalidChar(name) ==
    \E i \in 1..Len(name) : CharAt(name, i) \in {"\\", ":", "*", "?", "\"", "<", ">", "|"}

HasSlash(name) == \E i \in 1..Len(name) : CharAt(name, i) = "/"

\* the step is the return of a naming call that took no second step
NamingReturn ==
    /\ nCalls' = nCalls + 1
    /\ pending' = pending
    /\ done'.op \in {"new_agent_stream", "rename_agent_stream"}

\* a naming call that fails with InvalidStreamName changes no table and no counter
InvalidChangesNothing ==
    NamingReturn /\ done'.ret = "InvalidStreamName"
    => UNCHANGED <<agents, data, agent_txs, channels, streams, board_out_agents,
                   board_value, id_counter, stream_counter>>

\* a naming call got past the validation with this name
Accepted(name) ==
    \/ \E t \in HostThreads : pending[t].op # "idle" /\ pending[t].name = name
    \/ /\ done.op \in {"new_agent_stream", "rename_agent_stream"}
       /\ done.name = name
       /\ done.ret # "InvalidStreamName"

\* a naming call was refused with InvalidStreamName for this name
Refused(name) ==
    /\ done.op \in {"new_agent_stream", "rename_agent_stream"}
    /\ done.name = name
    /\ done.ret = "InvalidStreamName"

\* the names of the naming calls in progress and of the last one that returned
NamesInHand == {done.name} \cup {pending[t].name : t \in HostThreads}

\* C14 as stated: new_agent_stream and rename_agent_stream fail with
\* InvalidStreamName exactly for the names that are empty or whitespace-only, have
\* a leading, trailing or consecutive '/', have a path segment equal to "." or
\* "..", or contain one of \ : * ? " < > |.
C14_AsStated ==
    \A name \in NamesInHand :
        LET invalid == \/ IsBlank(name)
                       \/ HasBadSlash(name)
                       \/ HasDotSegment(name)
                       \/ HasInvalidChar(name)
        IN  /\ Accepted(name) => ~invalid
            /\ Refused(name) => invalid

\* the names refused by the validation: a segment "." or ".." counts only in a
\* name that holds a '/'
InvalidName(name) ==
    \/ IsBlank(name)
    \/ HasBadSlash(name)
    \/ HasSlash(name) /\ HasDotSegment(name)
    \/ HasInvalidChar(name)

\* the names in hand were accepted or refused as InvalidName says
NamesJudged ==
    \A name \in NamesInHand :
        /\ Accepted(name) => ~InvalidName(name)
        /\ Refused(name) => InvalidName(name)

\* C14, amended: new_agent_stream and rename_agent_stream fail with
\* InvalidStreamName, changing no state, exactly for the names that are empty or
\* whitespace-only, have a leading, trailing or consecutive '/', hold a '/' and
\* have a path segment equal to "." or "..", or contain one of \ : * ? " < > |;
\* every other name, "." and ".." among them, is accepted.
C14_Validation ==
    /\ []NamesJudged
    /\ [][InvalidChangesNothing]_vars

\* the name "a/." was refused for its segment
C14_Witness == Refused("a/.")

\* the name ".." was accepted and names a stream
C14_DotsAccepted ==
    /\ Accepted("..")
    /\ done.ret = "Ok"
    /\ \E s \in DOMAIN streams : streams[s].name = ".."

\* no two streams of the table have the same name
UniqueStreamNames ==
    \A s1, s2 \in DOMAIN streams : streams[s1].name = streams[s2].name => s1 = s2

\* thread t's new_agent_stream has got its name from unique_stream_name in this
\* step: for a name in use it is the name with the smallest unused suffix from 2
SmallestSuffix(t) ==
    pending[t].op = "idle" /\ pending'[t].op = "new_agent_stream"
    /\ pending'[t].name \in StreamNames(streams)
    => \E k \in 2..(Cardinality(DOMAIN streams) + 2) :
          /\ pending'[t].new_name = pending'[t].name \o ToString(k)
          /\ pending'[t].new_name \notin StreamNames(streams)
          /\ \A j \in 2..(k - 1) : pending'[t].name \o ToString(j) \in StreamNames(streams)

\* C15: new_agent_stream with a name already used names the new stream name2,
\* name3, ... with the smallest unused suffix, so that after any sequence of
\* new_agent_stream and rename_agent_stream calls, calls issued concurrently from
\* several threads included, no two streams of the table have the same name.
C15_AsStated ==
    /\ []UniqueStreamNames
    /\ [][\A t \in HostThreads : SmallestSuffix(t)]_vars

\* C15, the choice of the suffix alone
C15_Suffix == [][\A t \in HostThreads : SmallestSuffix(t)]_vars

-----------------------------------------------------------------------------
(* remove_agent_stream.                                                    *)

\* the step is the return of a remove_agent_stream that found its stream
RemoveStreamReturn ==
    /\ done'.op = "remove_agent_stream"
    /\ done'.ret = "Ok"
    /\ \/ call.op = "remove_agent_stream" /\ call'.op = "idle"
       \/ IsCallStep("remove_agent_stream")

\* the stream a returning remove_agent_stream took out of the table
RemovedStream == IF call.op = "remove_agent_stream" THEN call.stream ELSE streams[done'.id]

\* an agent that leaves the agents table within remove_agent_stream is not in
\* status Start: if it was, its stop callback has run
StoppedWhenRemoved ==
    call.op = "remove_agent_stream"
    => \A a \in agents \ agents' : data'[a].status # "Start"

\* after the return the stream is gone, none of its agents has an instance or a
\* sender, and no channel of the table begins or ends at one of its agents
RemovedClean ==
    RemoveStreamReturn
    => LET gone == Range(Ids(RemovedStream.spec.agents)) IN
       /\ done'.id \notin DOMAIN streams'
       /\ \A a \in gone : a \notin agents' /\ agent_txs'[a] = 0
       /\ \A s \in DOMAIN channels' :
             /\ s \notin gone
             /\ \A i \in 1..Len(channels'[s]) : channels'[s][i][1] \notin gone

\* remove_agent_stream for an id that is not in the table returns StreamNotFound
\* and changes nothing
RemoveUnknownStream ==
    IsCallStep("remove_agent_stream") /\ done'.id \notin DOMAIN streams
    => /\ done'.ret = "StreamNotFound"
       /\ UNCHANGED <<agents, data, agent_txs, channels, streams, board_out_agents,
                      board_value, mbox, log>>

\* C21: after remove_agent_stream(id) completes for an existing stream, the stream
\* is not in the streams table, none of its agents is in the agents table or has a
\* mailbox sender, every agent that was running has been stopped before it was
\* removed, and no channel with one of its agents as source or target is in the
\* channel table; for an unknown id it returns StreamNotFound and changes nothing.
C21_AsStated == [][RemovedClean /\ StoppedWhenRemoved /\ RemoveUnknownStream]_vars

\* C21 for the agents whose stop callback does not fail
C21_NoFailingStop ==
    [][(\A a \in AgentIds : ~FailsOn(a, "stop"))
       => RemovedClean /\ StoppedWhenRemoved /\ RemoveUnknownStream]_vars

-----------------------------------------------------------------------------
(* AgentContext (context.rs): a value that is never changed in place.      *)
(* Every derivation takes &self and returns a new context.                 *)

\* the width of usize and of i64 (64 in the build, scaled down)
UsizeBits == 8
\* the deepest frame stack a caller builds
MaxFrames == 2

\* `u as i64` for a usize u: the same bits read as two's complement
usize_as_i64(u) == IF u >= 2^(UsizeBits - 1) THEN u - 2^UsizeBits ELSE u

\* Option<T>
Some(x) == [some |-> TRUE, v |-> x]
Nothing == [some |-> FALSE, v |-> <<>>]

FRAME_MAP == "map"
FRAME_KEY_INDEX == "index"
FRAME_KEY_LENGTH == "length"

\* AgentValue::Object over a map; BTreeMap::insert replaces the value of a present key
AVObject(map) == [tag |-> "object", i |-> 0, s |-> "", o |-> map]
insert(map, key, value) ==
    [k \in DOMAIN map \cup {key} |-> IF k = key THEN value ELSE map[k]]

AgentContext(id, vs, fs) == [id |-> id, vars |-> vs, frames |-> fs]
Frame(name, value) == [name |-> name, data |-> value]

\* AgentContext::new(): the id is taken from CONTEXT_ID_COUNTER
new_context(id) == AgentContext(id, Nothing, Nothing)

with_var(self, key, value) ==
    LET held == IF self.vars.some THEN self.vars.v ELSE <<>> IN
    AgentContext(self.id, Some(insert(held, key, value)), self.frames)

\* a push_frame that would hand the derived context an id of its own
push_frame_new_id(self, name, value) ==
    LET frames == IF self.frames.some THEN self.frames.v ELSE <<>> IN
    AgentContext(self.id + 1, self.vars, Some(Append(frames, Frame(name, value))))

push_frame(self, name, value) ==
    LET frames == IF self.frames.some THEN self.frames.v ELSE <<>> IN
    AgentContext(self.id, self.vars, Some(Append(frames, Frame(name, value))))

\* pop_frame returns (Option<Frame>, AgentContext)
pop_frame(self) ==
    IF ~self.frames.some \/ self.frames.v = <<>>
    THEN [frame |-> Nothing, ctx |-> self]
    ELSE LET frames == self.frames.v
             rest == SubSeq(frames, 1, Len(frames) - 1)
         IN  [frame |-> Some(frames[Len(frames)]),
              ctx |-> AgentContext(self.id, self.vars,
                                   IF rest = <<>> THEN Nothing ELSE Some(rest))]

map_frame_data(index, len) ==
    AVObject(insert(insert(<<>>, FRAME_KEY_INDEX, AVInteger(usize_as_i64(index))),
                    FRAME_KEY_LENGTH, AVInteger(usize_as_i64(len))))

\* AgentValue::get(key).and_then(as_i64) on a frame's data
get_i64(value, key) ==
    IF value.tag = "object" /\ key \in DOMAIN value.o /\ value.o[key].tag = "integer"
    THEN Some(value.o[key].i)
    ELSE Nothing

ReadErr == [ret |-> "InvalidValue", some |-> FALSE, idx |-> 0, len |-> 0]

read_map_frame(frame) ==
    LET idx == get_i64(frame.data, FRAME_KEY_INDEX)
        len == get_i64(frame.data, FRAME_KEY_LENGTH)
    IN  IF ~idx.some \/ ~len.some THEN ReadErr
        ELSE IF idx.v < 0 \/ len.v < 1 THEN ReadErr
        ELSE IF idx.v >= len.v THEN ReadErr
        ELSE [ret |-> "Ok", some |-> TRUE, idx |-> idx.v, len |-> len.v]

push_map_frame(self, index, len) ==
    IF len = 0 THEN [ret |-> "InvalidValue", ctx |-> self]
    ELSE IF index >= len THEN [ret |-> "InvalidValue", ctx |-> self]
    ELSE [ret |-> "Ok", ctx |-> push_frame(self, FRAME_MAP, map_frame_data(index, len))]

\* Result<Option<(usize, usize)>, AgentError>
current_map_frame(self) ==
    LET none == [ret |-> "Ok", some |-> FALSE, idx |-> 0, len |-> 0] IN
    IF ~self.frames.some THEN none
    ELSE IF self.frames.v = <<>> THEN none
    ELSE IF self.frames.v[Len(self.frames.v)].name # FRAME_MAP THEN none
    ELSE read_map_frame(self.frames.v[Len(self.frames.v)])

pop_map_frame(self) ==
    LET p == pop_frame(self) IN
    IF p.frame.some /\ p.frame.v.name = FRAME_MAP THEN [ret |-> "Ok", ctx |-> p.ctx]
    ELSE [ret |-> "InvalidValue", ctx |-> self]

\* the frames of a context, oldest first
frames_of(self) == IF self.frames.some THEN self.frames.v ELSE <<>>

\* what the host passes to the context calls
VarKeys == {"k"}
VarValues == {AVInteger(1), AVString("n1")}
FrameNames == {FRAME_MAP, "other"}
MapArgs == {0, 1, 2^(UsizeBits - 1) - 1, 2^(UsizeBits - 1), 2^UsizeBits - 1}

ctxRest == <<agents, data, agent_txs, board_out_agents, board_value, channels, streams,
             tx, queue, loop, mbox, rxClosed, worker, call, done, nCalls, nEv, nIn, log,
             obs, dropped, id_counter, stream_counter, readied, pending, heap, vals,
             valOp>>

\* a call on the held context src returned the context out: the caller keeps the
\* context new() made and the latest one returned
CtxCall(op, src, i, n, ret, frame, out) ==
    /\ ctxOp' = [op |-> op, src |-> src, self |-> ctxs[src], i |-> i, n |-> n,
                 ret |-> ret, frame |-> frame, out |-> out]
    /\ ctxs' = <<ctxs[1], out>>
    /\ UNCHANGED <<nCtx, ctxRest>>

CtxNew ==
    /\ ctxs = <<>>
    /\ nCtx' = nCtx + 1
    /\ ctxs' = <<new_context(nCtx + 1)>>
    /\ ctxOp' = [op |-> "new"]
    /\ UNCHANGED ctxRest

CtxWithVar(src, key, value) ==
    /\ src \in DOMAIN ctxs
    /\ CtxCall("with_var", src, 0, 0, "Ok", Nothing, with_var(ctxs[src], key, value))

CtxPushFrame(src, name) ==
    /\ src \in DOMAIN ctxs
    /\ Len(frames_of(ctxs[src])) < MaxFrames
    /\ CtxCall("push_frame", src, 0, 0, "Ok", Nothing, push_frame(ctxs[src], name, AVUnit))

CtxPushMapFrame(src, i, n) ==
    /\ src \in DOMAIN ctxs
    /\ Len(frames_of(ctxs[src])) < MaxFrames
    /\ LET r == push_map_frame(ctxs[src], i, n) IN
       CtxCall("push_map_frame", src, i, n, r.ret, Nothing, r.ctx)

CtxPopFrame(src) ==
    /\ src \in DOMAIN ctxs
    /\ LET r == pop_frame(ctxs[src]) IN
       CtxCall("pop_frame", src, 0, 0, "Ok", r.frame, r.ctx)

CtxPopMapFrame(src) ==
    /\ src \in DOMAIN ctxs
    /\ LET r == pop_map_frame(ctxs[src]) IN
       CtxCall("pop_map_frame", src, 0, 0, r.ret, Nothing, r.ctx)

CtxInit ==
    /\ Fresh(Hub("routing"), 0, 1)
    /\ tx = TRUE
    /\ readied = 1

CtxNext ==
    \/ CtxNew
    \/ \E src \in 1 .. 2, key \in VarKeys, value \in VarValues : CtxWithVar(src, key, value)
    \/ \E src \in 1 .. 2, name \in FrameNames : CtxPushFrame(src, name)
    \/ \E src \in 1 .. 2, i \in MapArgs, n \in MapArgs : CtxPushMapFrame(src, i, n)
    \/ \E src \in 1 .. 2 : CtxPopFrame(src)
    \/ \E src \in 1 .. 2 : CtxPopMapFrame(src)

CtxSpec == CtxInit /\ [][CtxNext]_vars

-----------------------------------------------------------------------------
(* Properties of AgentContext.                                             *)

\* C22: with_var, push_frame and pop_frame never change the context they are called
\* on: after any sequence of derivations the context new() made still has the vars
\* and the frames it had, and every derived context has the id of the original.
C22_Derivations ==
    ctxs # <<>> =>
        /\ ctxs[1] = new_context(ctxs[1].id)
        /\ \A k \in DOMAIN ctxs : ctxs[k].id = ctxs[1].id
        /\ ctxOp.op \in {"with_var", "push_frame", "pop_frame"} =>
                /\ ctxs[ctxOp.src] = ctxOp.self \/ ctxOp.src = 2
                /\ ctxOp.out.id = ctxOp.self.id

\* a context derived by with_var and two pushes, the original still as new() made it
C22_Witness ==
    /\ Len(ctxs) = 2
    /\ ctxOp.op = "push_frame"
    /\ ctxOp.src = 2
    /\ ctxs[2].vars.some
    /\ Len(frames_of(ctxs[2])) = 2
    /\ ctxs[1] = new_context(ctxs[1].id)

\* what push_map_frame(i, n) returned is what the claim says of it
PushMapFrameAsStated ==
    /\ (ctxOp.ret = "InvalidValue") <=> (ctxOp.n = 0 \/ ctxOp.i >= ctxOp.n)
    /\ ctxOp.ret \in {"Ok", "InvalidValue"}
    /\ ctxOp.ret = "Ok" =>
            /\ frames_of(ctxOp.out)[Len(frames_of(ctxOp.out))].name = FRAME_MAP
            /\ current_map_frame(ctxOp.out)
                   = [ret |-> "Ok", some |-> TRUE, idx |-> ctxOp.i, len |-> ctxOp.n]
            /\ pop_map_frame(ctxOp.out).ret = "Ok"
            /\ frames_of(pop_map_frame(ctxOp.out).ctx) = frames_of(ctxOp.self)

\* what pop_map_frame returned is what the claim says of it
PopMapFrameAsStated ==
    LET fs == frames_of(ctxOp.self) IN
    /\ (ctxOp.ret = "InvalidValue") <=> (fs = <<>> \/ fs[Len(fs)].name # FRAME_MAP)
    /\ ctxOp.ret \in {"Ok", "InvalidValue"}
    /\ ctxOp.ret = "Ok" =>
            /\ frames_of(ctxOp.out) = SubSeq(fs, 1, Len(fs) - 1)
            /\ ctxOp.out.id = ctxOp.self.id
            /\ ctxOp.out.vars = ctxOp.self.vars

\* C23: push_map_frame(i, n) fails with InvalidValue exactly when n = 0 or i >= n,
\* and on success the new top frame is a map frame with index i and length n;
\* pop_map_frame fails exactly when the stack is empty or its top frame is not a map
\* frame, and otherwise returns the context without the top frame, so popping what
\* push_map_frame returned gives the frames pushed onto.
C23_AsStated ==
    /\ ctxOp.op = "push_map_frame" => PushMapFrameAsStated
    /\ ctxOp.op = "pop_map_frame" => PopMapFrameAsStated

\* C23 for an index and a length that fit an i64
C23_WithinI64 ==
    /\ (ctxOp.op = "push_map_frame" /\ ctxOp.n < 2^(UsizeBits - 1)) => PushMapFrameAsStated
    /\ ctxOp.op = "pop_map_frame" => PopMapFrameAsStated

\* push_map_frame took a length no i64 holds, and the frame it pushed cannot be read
C23_Wrapped ==
    /\ ctxOp.op = "push_map_frame"
    /\ ctxOp.ret = "Ok"
    /\ ctxOp.n >= 2^(UsizeBits - 1)
    /\ current_map_frame(ctxOp.out).ret = "InvalidValue"

\* a map frame pushed onto a stack that holds a frame, and one popped again
C23_Pushed ==
    /\ ctxOp.op = "push_map_frame"
    /\ ctxOp.ret = "Ok"
    /\ ctxOp.n < 2^(UsizeBits - 1)
    /\ Len(frames_of(ctxOp.self)) = 1

-----------------------------------------------------------------------------
(* AgentValue and JSON (value.rs): to_json builds a serde_json::Value,     *)
(* from_json reads one.                                                    *)

\* the deepest nesting of arrays and objects a caller builds
MaxDepth == 2

\* f64: the finite values are counted in halves (twice = 3 is 1.5); NaN and the
\* infinities are values of their own
Finite(twice) == [cls |-> "finite", twice |-> twice]
NaN == [cls |-> "nan", twice |-> 0]
Infinity == [cls |-> "inf", twice |-> 0]
is_finite(f) == f.cls = "finite"
\* f64's ==: NaN equals nothing
f64_eq(x, y) == x.cls # "nan" /\ y.cls # "nan" /\ x = y

I64_MAX == 2^(UsizeBits - 1) - 1

AVBoolean(b) == [tag |-> "boolean", i |-> 0, s |-> "", b |-> b]
AVNumber(f) == [tag |-> "number", i |-> 0, s |-> "", f |-> f]
AVArray(seq) == [tag |-> "array", i |-> 0, s |-> "", a |-> seq]

\* serde_json::Value; a Number is PosInt(u64), NegInt(i64) or Float(f64)
JNull == [t |-> "Null"]
JBool(b) == [t |-> "Bool", b |-> b]
JNumber(kind, n) == [t |-> "Number", kind |-> kind, n |-> n]
JString(str) == [t |-> "String", s |-> str]
JArray(seq) == [t |-> "Array", a |-> seq]
JObject(map) == [t |-> "Object", o |-> map]

\* Value::from(i64) and Value::from(f64): a float that is not finite becomes Null
json_from_i64(i) == IF i < 0 THEN JNumber("NegInt", i) ELSE JNumber("PosInt", i)
json_from_f64(f) == IF is_finite(f) THEN JNumber("Float", f) ELSE JNull

\* a Number::as_i64 that would also read a float holding an integer
number_as_i64_of_float(j) ==
    CASE j.kind = "PosInt" -> IF j.n <= I64_MAX THEN Some(j.n) ELSE Nothing
      [] j.kind = "NegInt" -> Some(j.n)
      [] j.kind = "Float" -> IF j.n.twice % 2 = 0 THEN Some(j.n.twice \div 2) ELSE Nothing

\* Number::as_i64: an integer that fits; a Float is never an i64
number_as_i64(j) ==
    CASE j.kind = "PosInt" -> IF j.n <= I64_MAX THEN Some(j.n) ELSE Nothing
      [] j.kind = "NegInt" -> Some(j.n)
      [] j.kind = "Float" -> Nothing

\* Number::as_f64 is Some for every Number: halves again
number_as_f64(j) == IF j.kind = "Float" THEN j.n ELSE Finite(2 * j.n)

RECURSIVE to_json(_)
to_json(value) ==
    CASE value.tag = "unit" -> JNull
      [] value.tag = "boolean" -> JBool(value.b)
      [] value.tag = "integer" -> json_from_i64(value.i)
      [] value.tag = "number" -> json_from_f64(value.f)
      [] value.tag = "string" -> JString(value.s)
      [] value.tag = "object" -> JObject([key \in DOMAIN value.o |-> to_json(value.o[key])])
      [] value.tag = "array" -> JArray([n \in DOMAIN value.a |-> to_json(value.a[n])])

\* from_json returns Ok for every Value: the InvalidValue arm needs a Number that is
\* neither an i64 nor an f64, and as_f64 is Some for every Number
RECURSIVE from_json(_)
from_json(j) ==
    CASE j.t = "Null" -> AVUnit
      [] j.t = "Bool" -> AVBoolean(j.b)
      [] j.t = "Number" -> IF number_as_i64(j).some THEN AVInteger(number_as_i64(j).v)
                           ELSE AVNumber(number_as_f64(j))
      [] j.t = "String" -> AVString(j.s)
      [] j.t = "Array" -> AVArray([n \in DOMAIN j.a |-> from_json(j.a[n])])
      [] j.t = "Object" -> AVObject([key \in DOMAIN j.o |-> from_json(j.o[key])])

\* impl PartialEq for AgentValue
RECURSIVE eq(_, _)
eq(x, y) ==
    /\ x.tag = y.tag
    /\ CASE x.tag = "number" -> f64_eq(x.f, y.f)
         [] x.tag = "array" -> /\ Len(x.a) = Len(y.a)
                               /\ \A n \in DOMAIN x.a : eq(x.a[n], y.a[n])
         [] x.tag = "object" -> /\ DOMAIN x.o = DOMAIN y.o
                                /\ \A key \in DOMAIN x.o : eq(x.o[key], y.o[key])
         [] OTHER -> x = y

\* how deep the arrays and objects of a value nest
RECURSIVE depth(_)
Max(ns) == CHOOSE n \in ns : \A o \in ns : o <= n
depth(value) ==
    CASE value.tag = "array" -> 1 + Max({0} \cup {depth(value.a[n]) : n \in DOMAIN value.a})
      [] value.tag = "object" -> 1 + Max({0} \cup {depth(value.o[key]) : key \in DOMAIN value.o})
      [] OTHER -> 0

\* what the constructors without elements build
Leaves ==
    {AVUnit, AVBoolean(TRUE), AVInteger(1), AVInteger(0 - 1), AVNumber(Finite(2)),
     AVNumber(Finite(3)), AVNumber(NaN), AVNumber(Infinity), AVString("n1"),
     AVArray(<<>>), AVObject(<<>>)}
ObjectKeys == {"k"}

jsonRest == <<agents, data, agent_txs, board_out_agents, board_value, channels, streams,
              tx, queue, loop, mbox, rxClosed, worker, call, done, nCalls, nCtx, nEv, nIn,
              log, obs, dropped, id_counter, stream_counter, readied, pending, ctxs,
              ctxOp, heap>>

\* the caller builds a value with a constructor
ValNew(value) ==
    /\ vals = <<>>
    /\ vals' = <<value>>
    /\ valOp' = [op |-> "new"]
    /\ UNCHANGED jsonRest

\* AgentValue::array over the held value and the elements rest
ValArray(rest) ==
    /\ Len(vals) = 1
    /\ depth(vals[1]) < MaxDepth
    /\ vals' = <<AVArray(<<vals[1]>> \o rest)>>
    /\ valOp' = [op |-> "array"]
    /\ UNCHANGED jsonRest

\* AgentValue::object with the held value under key
ValObject(key) ==
    /\ Len(vals) = 1
    /\ depth(vals[1]) < MaxDepth
    /\ vals' = <<AVObject(insert(<<>>, key, vals[1]))>>
    /\ valOp' = [op |-> "object"]
    /\ UNCHANGED jsonRest

\* from_json(v.to_json())
ValRoundTrip ==
    /\ Len(vals) = 1
    /\ valOp.op # "from_json"
    /\ valOp' = [op |-> "from_json", v |-> vals[1], json |-> to_json(vals[1]),
                 ret |-> "Ok", back |-> from_json(to_json(vals[1]))]
    /\ UNCHANGED <<vals, jsonRest>>

JsonInit ==
    /\ Fresh(Hub("routing"), 0, 1)
    /\ tx = TRUE
    /\ readied = 1

JsonNext ==
    \/ \E value \in Leaves : ValNew(value)
    \/ \E rest \in {<<>>} \cup {<<l>> : l \in Leaves} : ValArray(rest)
    \/ \E key \in ObjectKeys : ValObject(key)
    \/ ValRoundTrip

JsonSpec == JsonInit /\ [][JsonNext]_vars

-----------------------------------------------------------------------------
(* Properties of the JSON conversion.                                      *)

\* the value with every number that holds an integer replaced by that integer
RECURSIVE Canonical(_)
Canonical(value) ==
    CASE value.tag = "number" ->
             IF is_finite(value.f) /\ value.f.twice % 2 = 0
             THEN AVInteger(value.f.twice \div 2) ELSE value
      [] value.tag = "array" -> AVArray([n \in DOMAIN value.a |-> Canonical(value.a[n])])
      [] value.tag = "object" -> AVObject([key \in DOMAIN value.o |-> Canonical(value.o[key])])
      [] OTHER -> value

\* the value with every number that is not finite replaced by unit
RECURSIVE NonFiniteAsUnit(_)
NonFiniteAsUnit(value) ==
    CASE value.tag = "number" -> IF is_finite(value.f) THEN value ELSE AVUnit
      [] value.tag = "array" ->
             AVArray([n \in DOMAIN value.a |-> NonFiniteAsUnit(value.a[n])])
      [] value.tag = "object" ->
             AVObject([key \in DOMAIN value.o |-> NonFiniteAsUnit(value.o[key])])
      [] OTHER -> value

-----------------------------------------------------------------------------
(* AgentValue objects behind Arc (value.rs): clone shares the allocation,  *)
(* set goes through Arc::make_mut.                                         *)

\* the values a caller holds at once, and the allocations made in all
MaxVals == 2
MaxAllocs == 2

\* an Arc<AgentValueMap> allocation: its strong count and the map
Alloc(n, map) == [strong |-> n, map |-> map]
\* AgentValue::Object(arc) for the allocation p
AVObjectAt(p) == [tag |-> "object", i |-> 0, s |-> "", ptr |-> p]

\* AgentValue::clone: Arc::clone adds one to the strong count; the value is the same
clone_value(h, value) ==
    IF value.tag = "object" THEN [h EXCEPT ![value.ptr].strong = @ + 1] ELSE h

\* BTreeMap::clone clones every value of the map
RECURSIVE clone_map(_, _, _)
clone_map(h, map, keys) ==
    IF keys = {} THEN h
    ELSE LET key == CHOOSE k \in keys : TRUE IN
         clone_map(clone_value(h, map[key]), map, keys \ {key})

\* drop: the strong count goes down by one; the last owner drops the map's values
RECURSIVE drop_value(_, _)
RECURSIVE drop_map(_, _, _)
drop_value(h, value) ==
    IF value.tag # "object" THEN h
    ELSE IF h[value.ptr].strong > 1 THEN [h EXCEPT ![value.ptr].strong = @ - 1]
    ELSE drop_map([h EXCEPT ![value.ptr] = Alloc(0, <<>>)], h[value.ptr].map,
                  DOMAIN h[value.ptr].map)
drop_map(h, map, keys) ==
    IF keys = {} THEN h
    ELSE LET key == CHOOSE k \in keys : TRUE IN
         drop_map(drop_value(h, map[key]), map, keys \ {key})

\* a make_mut that would hand out the shared allocation as it is
make_mut_shared(h, value) == [heap |-> h, value |-> value]

\* as_object_mut: Arc::make_mut gives the allocation itself to its only owner, and
\* otherwise moves this value to a new allocation holding a clone of the map
make_mut(h, value) ==
    IF h[value.ptr].strong = 1 THEN [heap |-> h, value |-> value]
    ELSE LET map == h[value.ptr].map
             cloned == clone_map(h, map, DOMAIN map)
         IN  [heap |-> Append([cloned EXCEPT ![value.ptr].strong = @ - 1], Alloc(1, map)),
              value |-> AVObjectAt(Len(h) + 1)]

\* set(&mut self, key, value): self afterwards, the heap afterwards, the result
set(h, self, key, value) ==
    IF self.tag = "object"
    THEN LET m == make_mut(h, self)
             p == m.value.ptr
             map == m.heap[p].map
             put == [m.heap EXCEPT ![p].map = insert(map, key, value)]
         IN  [ret |-> "Ok", self |-> m.value,
              heap |-> IF key \in DOMAIN map THEN drop_value(put, map[key]) ELSE put]
    ELSE [ret |-> "InvalidValue", self |-> self, heap |-> drop_value(h, value)]

\* what a value reads as: the tree of its contents, to the depth the allocations allow
RECURSIVE read(_, _, _)
read(h, value, fuel) ==
    IF value.tag # "object" THEN value
    ELSE IF fuel = 0 THEN AVString("...")
    ELSE AVObject([key \in DOMAIN h[value.ptr].map |->
                       read(h, h[value.ptr].map[key], fuel - 1)])
Reads(h, values) == [k \in DOMAIN values |-> read(h, values[k], MaxAllocs + 2)]
\* AgentValue::get(key): what the value holds under the key, if it is an object
get(h, value, key) ==
    IF value.tag = "object" /\ key \in DOMAIN h[value.ptr].map
    THEN Some(read(h, h[value.ptr].map[key], MaxAllocs + 2))
    ELSE Nothing

SetKeys == {"k", "k2"}

arcRest == <<agents, data, agent_txs, board_out_agents, board_value, channels, streams,
             tx, queue, loop, mbox, rxClosed, worker, call, done, nCalls, nCtx, nEv, nIn,
             log, obs, dropped, id_counter, stream_counter, readied, pending, ctxs,
             ctxOp>>

\* AgentValue::object_default(): Arc::new
ArcObjectDefault ==
    /\ Len(vals) < MaxVals
    /\ Len(heap) < MaxAllocs
    /\ heap' = Append(heap, Alloc(1, <<>>))
    /\ vals' = Append(vals, AVObjectAt(Len(heap) + 1))
    /\ valOp' = [op |-> "object_default"]
    /\ UNCHANGED arcRest

\* AgentValue::integer(n)
ArcInteger(n) ==
    /\ Len(vals) < MaxVals
    /\ vals' = Append(vals, AVInteger(n))
    /\ valOp' = [op |-> "integer"]
    /\ UNCHANGED <<heap, arcRest>>

\* let w = vals[src].clone()
ArcClone(src) ==
    /\ src \in DOMAIN vals
    /\ Len(vals) < MaxVals
    /\ heap' = clone_value(heap, vals[src])
    /\ vals' = Append(vals, vals[src])
    /\ valOp' = [op |-> "clone", src |-> src]
    /\ UNCHANGED arcRest

\* vals[dst].set(key, value), the value already made
ArcSet(dst, key, h, value) ==
    /\ dst \in DOMAIN vals
    /\ vals[dst].tag = "object" /\ h[vals[dst].ptr].strong > 1 => Len(h) < MaxAllocs
    /\ LET r == set(h, vals[dst], key, value) IN
       /\ heap' = r.heap
       /\ vals' = [vals EXCEPT ![dst] = r.self]
       /\ valOp' = [op |-> "set", dst |-> dst, key |-> key, ret |-> r.ret,
                    shared |-> vals[dst].tag = "object" /\ r.self # vals[dst]]
    /\ UNCHANGED arcRest

\* vals[dst].set(key, AgentValue::integer(n))
ArcSetInteger(dst, key, n) == ArcSet(dst, key, heap, AVInteger(n))

\* vals[dst].set(key, vals[src].clone())
ArcSetClone(dst, key, src) ==
    /\ src \in DOMAIN vals
    /\ ArcSet(dst, key, clone_value(heap, vals[src]), vals[src])

\* drop(vals[k])
ArcDrop(k) ==
    /\ k \in DOMAIN vals
    /\ heap' = drop_value(heap, vals[k])
    /\ vals' = SubSeq(vals, 1, k - 1) \o SubSeq(vals, k + 1, Len(vals))
    /\ valOp' = [op |-> "drop", src |-> k]
    /\ UNCHANGED arcRest

ArcInit ==
    /\ Fresh(Hub("routing"), 0, 1)
    /\ tx = TRUE
    /\ readied = 1

ArcNext ==
    \/ ArcObjectDefault
    \/ ArcInteger(1)
    \/ \E src \in 1 .. MaxVals : ArcClone(src)
    \/ \E dst \in 1 .. MaxVals, key \in SetKeys : ArcSetInteger(dst, key, 2)
    \/ \E dst \in 1 .. MaxVals, src \in 1 .. MaxVals : ArcSetClone(dst, "k", src)
    \/ \E k \in 1 .. MaxVals : ArcDrop(k)

ArcSpec == ArcInit /\ [][ArcNext]_vars

-----------------------------------------------------------------------------
(* Properties of set.                                                      *)

\* the owners of the allocation p: the held values and the values in live maps
Owners(p) ==
    Cardinality({k \in DOMAIN vals : vals[k].tag = "object" /\ vals[k].ptr = p})
    + Cardinality({qk \in (DOMAIN heap) \X SetKeys :
                      /\ heap[qk[1]].strong > 0
                      /\ qk[2] \in DOMAIN heap[qk[1]].map
                      /\ heap[qk[1]].map[qk[2]].tag = "object"
                      /\ heap[qk[1]].map[qk[2]].ptr = p})

\* the strong count of every allocation is the number of its owners
StrongCounts == \A p \in DOMAIN heap : heap[p].strong = Owners(p)

\* the value set was called on reads as before with the key set, or as before
SetOnSelf ==
    LET was == Reads(heap, vals)[valOp'.dst]
        now == Reads(heap', vals')[valOp'.dst]
    IN  IF was.tag = "object"
        THEN /\ valOp'.ret = "Ok"
             /\ now.tag = "object"
             /\ DOMAIN now.o = DOMAIN was.o \cup {valOp'.key}
             /\ \A key \in DOMAIN was.o \ {valOp'.key} : now.o[key] = was.o[key]
             /\ \/ now.o[valOp'.key] = AVInteger(2)
                \/ \E src \in DOMAIN vals : now.o[valOp'.key] = Reads(heap, vals)[src]
        ELSE valOp'.ret = "InvalidValue" /\ now = was

\* every held value but the one set was called on reads as before
SetOnOthers ==
    \A k \in DOMAIN vals \ {valOp'.dst} : Reads(heap', vals')[k] = Reads(heap, vals)[k]

\* a step that is a call of set
IsSet == valOp'.op = "set" /\ Len(vals') = Len(vals) /\ <<heap, vals, valOp>>' # <<heap, vals, valOp>>

\* C25: set(key, v) on an object changes only the value it is called on: every other
\* held value, cloned from it or the one it was cloned from, still reads its old
\* contents; set on a value that is not an object returns InvalidValue and leaves
\* the value unchanged.
C25_SetCopyOnWrite == [][IsSet => SetOnSelf /\ SetOnOthers]_vars

\* set on an object that shared its allocation with a clone: the clone reads the
\* old contents, the object the new
C25_Witness ==
    /\ valOp.op = "set"
    /\ valOp.ret = "Ok"
    /\ valOp.shared
    /\ \E k \in DOMAIN vals \ {valOp.dst} :
           /\ vals[k].tag = "object"
           /\ ~get(heap, vals[k], valOp.key).some
           /\ get(heap, vals[valOp.dst], valOp.key).some

\* set on an integer
C25_NotAnObject ==
    /\ valOp.op = "set"
    /\ valOp.ret = "InvalidValue"

-----------------------------------------------------------------------------
(* rename_agent_stream.                                                    *)

\* the step is the return of thread t's rename_agent_stream, past the validation
RenameReturn(t) ==
    /\ pending[t].op = "rename_agent_stream"
    /\ pending'[t].op = "idle"

\* nothing of the hub but the streams table changes
RenameFrame ==
    UNCHANGED <<agents, data, agent_txs, channels, board_out_agents, board_value,
                id_counter, stream_counter>>

\* the stream is still under its id, with its agents, channels and running flag, and
\* no other stream has changed
RenamedInPlace(t) ==
    LET id == pending[t].id IN
    /\ done'.ret = "Ok"
    /\ DOMAIN streams' = DOMAIN streams
    /\ streams'[id].spec = streams[id].spec
    /\ streams'[id].running = streams[id].running
    /\ \A other \in DOMAIN streams \ {id} : streams'[other] = streams[other]
    /\ RenameFrame

\* the stream has the name asked for if no other stream has it
RenamedTo(t) ==
    LET id == pending[t].id IN
    (\A other \in DOMAIN streams \ {id} : streams[other].name # pending[t].name)
    => streams'[id].name = pending[t].name

\* an id that is not in the table: an error, and nothing changes
RenameUnknown(t) ==
    /\ done'.ret \notin {"Ok", ""}
    /\ streams' = streams
    /\ RenameFrame

\* C26: rename_agent_stream(id, new_name) with a valid new_name on an existing stream
\* leaves the stream under its id with its agents, channels and running flag, and
\* with the name new_name whenever no other stream uses that name, also when it is
\* the stream's own name; for an id that is not in the table it returns an error and
\* changes nothing.
C26_AsStated ==
    [][\A t \in HostThreads :
          RenameReturn(t) =>
              IF pending[t].id \in DOMAIN streams
              THEN RenamedInPlace(t) /\ RenamedTo(t)
              ELSE RenameUnknown(t)]_vars

\* C26 without the name: what rename_agent_stream leaves alone
C26_Frame ==
    [][\A t \in HostThreads :
          RenameReturn(t) =>
              IF pending[t].id \in DOMAIN streams
              THEN RenamedInPlace(t) /\ streams'[pending[t].id].name = pending[t].new_name
              ELSE RenameUnknown(t)]_vars

\* a stream renamed to the name it had is called by that name with the suffix 2
C26_OwnName ==
    /\ done.op = "rename_agent_stream"
    /\ done.ret = "Ok"
    /\ done.id \in DOMAIN streams
    /\ streams[done.id].name = done.name \o "2"
    /\ \A other \in DOMAIN streams : streams[other].name # done.name

-----------------------------------------------------------------------------
(* The mailbox sender and the status of an agent.                          *)

\* no spawned worker of the agent is still before its start step
PastStart(a) == \A m \in Mailboxes : worker[m].agent = a => worker[m].pc # "spawned"

\* C27: whenever no start_agent or stop_agent call for an agent is in progress and
\* the worker spawned for it has finished its start step, the agent has a mailbox
\* sender in the table if and only if its status is Start, whatever the interleaving
\* of the start_agent and stop_agent calls, a stop_agent right after start_agent
\* included.
C27_AsStated ==
    \A a \in agents :
        call.op = "idle" /\ PastStart(a)
        => (agent_txs[a] # 0 <=> data[a].status = "Start")

\* stop_agent right after start_agent, on an agent none of whose callbacks fails:
\* the worker has started the agent and has left on the Stop message, the agent is
\* in status Start and has no sender
C27_StoppedBeforeStart ==
    \E a \in agents :
        /\ call.op = "idle"
        /\ \A cb \in {"start", "stop", "process", "config"} : ~FailsOn(a, cb)
        /\ \E m \in Mailboxes : worker[m].agent = a /\ worker[m].pc = "done"
        /\ agent_txs[a] = 0
        /\ data[a].status = "Start"

-----------------------------------------------------------------------------
(* The subscribers of the boards.                                          *)

\* the agent is a started BoardOut or VarOut agent whose name config maps to the board
SubscribedByRight(a, board) ==
    /\ a \in agents
    /\ IsOutAgent(a)
    /\ data[a].status = "Start"
    /\ data[a].name # None
    /\ BoardOf(a, data[a].name) = board

\* C28: in every reachable state board_out_agents[name] contains an agent id only if
\* the agent is a started BoardOut or VarOut agent whose current name config maps to
\* name: start adds the id, stop removes it, a name change on a started agent moves
\* it; a config change on an agent that is not started does not register it.
C28_AsStated ==
    \A board \in DOMAIN board_out_agents :
        \A a \in Range(board_out_agents[board]) : SubscribedByRight(a, board)

\* C28 for the agents that are started
C28_Started ==
    \A a \in agents :
        IsOutAgent(a) /\ data[a].status = "Start" =>
            \A board \in DOMAIN board_out_agents :
                a \in Range(board_out_agents[board]) => SubscribedByRight(a, board)

\* a BoardOut agent that was never started is subscribed to the board of the name
\* it was given by a config change
C28_NeverStarted ==
    \E a \in agents :
        /\ IsOutAgent(a)
        /\ data[a].status = "Init"
        /\ \A n \in DOMAIN log[a] : log[a][n].op # "start"
        /\ \E board \in DOMAIN board_out_agents : a \in Range(board_out_agents[board])

-----------------------------------------------------------------------------
(* stop_agent and the senders of a mailbox.                                *)

\* the step puts a message of this kind at the end of mailbox m
Accepts(m, stop) ==
    /\ m \in DOMAIN mbox
    /\ Len(mbox'[m]) = Len(mbox[m]) + 1
    /\ (mbox'[m][Len(mbox'[m])].type = "Stop") = stop

\* when Stop goes into a mailbox its sender has left the table
StopAfterRemoval ==
    \A m \in Mailboxes : Accepts(m, TRUE) => \A a \in AgentIds : agent_txs'[a] # m

\* when stop_agent runs the stop callback of an agent, the agent has no sender
CallbackAfterRemoval ==
    \A a \in AgentIds :
        /\ Len(log'[a]) = Len(log[a]) + 1
        /\ log'[a][Len(log'[a])].op = "stop"
        => agent_txs[a] = 0

\* a mailbox whose sender has left the table accepts no message
NoLateMessage ==
    \A m \in Mailboxes : Accepts(m, FALSE) => \E a \in AgentIds : agent_txs[a] = m

\* C29: stop_agent removes the mailbox sender from the table before it sends Stop and
\* before it awaits the stop callback, and once the sender is removed no further
\* message is accepted into the agent's mailbox, under any interleaving with
\* concurrent agent_input calls.
C29_AsStated == [][StopAfterRemoval /\ CallbackAfterRemoval /\ NoLateMessage]_vars

\* C29, the order of stop_agent alone
C29_Order == [][StopAfterRemoval /\ CallbackAfterRemoval]_vars

\* a mailbox holds an Input behind the Stop of stop_agent
C29_LateMessage ==
    \E m \in Mailboxes :
        \E i, j \in DOMAIN mbox[m] : i < j /\ mbox[m][i].type = "Stop" /\ mbox[m][j].type # "Stop"

-----------------------------------------------------------------------------
(* The worker of an agent whose callbacks fail, under fair scheduling.     *)

\* a stream with a Faulty agent whose process or whose configs_changed fails, the
\* hub ready
WorkInit ==
    \E cb \in {"process", "config"} :
        /\ Fresh(add_agent_streams(NewHub, FaultyStreams(cb), <<"s1">>), 0, 1)
        /\ tx = TRUE
        /\ readied = 1

\* the host starts and stops the stream and sends inputs and configs to its agents
WorkNext ==
    \/ CallStartStream("s1")
    \/ StartStreamStep
    \/ CallStopStream("s1")
    \/ StopStreamTx
    \/ StopStreamCb
    \/ \E a \in KnownAgents, value \in InputValues : CallAgentInput(a, PIN_IN, value)
    \/ \E a \in KnownAgents : CallAgentInput(a, "config:" \o CONFIG_FAIL, AVString("config"))
    \/ CallAgentInputSend
    \/ LoopRecv
    \/ LoopRoute
    \/ LoopSend
    \/ \E m \in Mailboxes : WorkerStart(m)
    \/ \E m \in Mailboxes : WorkerRecv(m)

\* the mailboxes the calls of the host can make
WorkerIds == 1 .. (2 * MaxCalls)

\* a spawned task is scheduled again and again: its start step and its recv
WorkerStep(m) == m \in Mailboxes /\ (WorkerStart(m) \/ WorkerRecv(m))

WorkSpec == WorkInit /\ [][WorkNext]_vars /\ \A m \in WorkerIds : WF_vars(WorkerStep(m))

\* the numbers agent_input gives to the messages it makes
Deliveries == 1 .. (2 * MaxCalls)

\* message d waits in mailbox m with no Stop before it
Queued(m, d) ==
    /\ m \in Mailboxes
    /\ \E i \in 1 .. Len(mbox[m]) :
          /\ mbox[m][i].type # "Stop"
          /\ mbox[m][i].d = d
          /\ \A j \in 1 .. i - 1 : mbox[m][j].type # "Stop"

\* the worker of mailbox m has handled message d
Handled(m, d) ==
    /\ m \in Mailboxes
    /\ \E n \in 1 .. Len(log[worker[m].agent]) :
          /\ log[worker[m].agent][n].mb = m
          /\ log[worker[m].agent][n].d = d

\* this step, the worker of mailbox m handles the message at the head of its mailbox
Handles(m) ==
    /\ worker[m].pc = "loop"
    /\ mbox[m] # <<>>
    /\ Head(mbox[m]).type # "Stop"
    /\ Len(log'[worker[m].agent]) = Len(log[worker[m].agent]) + 1
    /\ log'[worker[m].agent][Len(log'[worker[m].agent])].mb = m

\* this step, the worker of mailbox m handles a message and gets an error back
HandlesFailing(m) ==
    Handles(m) /\ HandleResult(worker[m].agent, Head(mbox[m])) # "Ok"

\* after a handled message the worker is in its loop, its receiver open, the rest of
\* the mailbox in place, and the message it logged is the one that was at the head
StaysInLoop(m) ==
    /\ worker'[m].pc = "loop"
    /\ ~rxClosed'[m]
    /\ mbox'[m] = Tail(mbox[m])
    /\ log'[worker[m].agent][Len(log'[worker[m].agent])].d = Head(mbox[m]).d

\* a message waits in one mailbox only, and the worker that handles it is the worker
\* of that mailbox
OneMailbox ==
    \A m \in Mailboxes, k \in Mailboxes, d \in Deliveries :
        Queued(m, d) /\ (Queued(k, d) \/ Handled(k, d)) => k = m

\* C30 (safety half): a worker that handles a message, failing or not, stays in its
\* loop with the rest of its mailbox, and handles the messages in mailbox order
C30_StaysInLoop ==
    [][\A m \in Mailboxes : Handles(m) => StaysInLoop(m)]_vars

-----------------------------------------------------------------------------
(* The two ways into the hub event queue: try_send and the awaited send.   *)

\* the event queue has its sender and is full
QueueFull == tx /\ Len(queue) >= EventQueueCap

\* the hub calls that end in the awaited tx.send
AwaitedSends == {"send_agent_out", "write_board_value", "write_var_value"}

\* this step a host call of the given kind returns
Returns(ops) == nCalls' = nCalls + 1 /\ done' # done /\ done'.op \in ops

\* this step agent a runs process on an input that makes it emit an event
EmittingProcess(a) ==
    /\ Len(log'[a]) = Len(log[a]) + 1
    /\ log'[a][Len(log'[a])].op = "process"
    /\ \E m \in Mailboxes :
          /\ mbox[m] # <<>>
          /\ worker[m].agent = a
          /\ log'[a][Len(log'[a])].d = Head(mbox[m]).d
          /\ Emits(a, Head(mbox[m])) # NoEvent

\* try_send on a full queue: SendMessageFailed, the queue as it was
TrySendFailsFast ==
    /\ QueueFull /\ Returns({"try_send_agent_out"})
          => done'.ret = "SendMessageFailed" /\ queue' = queue /\ nEv' = nEv
    /\ \A a \in agents :
          QueueFull /\ EmittingProcess(a)
             => /\ queue' = queue
                /\ nEv' = nEv
                /\ ObsAgentError(a, "SendMessageFailed", log'[a][Len(log'[a])].d) \in obs'

\* the awaited send returns Ok only with the event put once at the end of a queue
\* that had room
SendWaitsForRoom ==
    tx /\ Returns(AwaitedSends)
       => /\ Len(queue) < EventQueueCap
          /\ done'.ret = "Ok"
          /\ Len(queue') = Len(queue) + 1
          /\ SubSeq(queue', 1, Len(queue)) = queue
          /\ queue'[Len(queue')].ev = nEv + 1
          /\ queue'[Len(queue')].ctx = done'.ctx
          /\ \A i \in 1 .. Len(queue) : queue[i].ev # nEv + 1

\* a source whose events reach a counter and a board writer, which both emit
FanStreams ==
    "s1" :> [agents |-> << AgentSpec("a1", "TestProbe", NoConfigs, FALSE),
                           AgentSpec("a2", "Counter", SomeConfigs(<<>>), FALSE),
                           AgentSpec("a3", "BoardIn", NameConfig(CONFIG_BOARD_NAME, "n1"), FALSE) >>,
             channels |-> << ChannelSpec("a1", PIN_COUNT, "a2", PIN_IN),
                             ChannelSpec("a1", "*", "a3", PIN_IN) >>]

\* the hub ready, with that stream added
QueueInit ==
    /\ Fresh(add_agent_streams(NewHub, FanStreams, <<"s1">>), 0, 1)
    /\ tx = TRUE
    /\ readied = 1

\* the host starts the stream and emits in the name of the source, with the awaited
\* send and with try_send
QueueNext ==
    \/ CallStartStream("s1")
    \/ StartStreamStep
    \/ \E value \in InputValues : CallSendAgentOut("a1", PIN_COUNT, value)
    \/ \E value \in InputValues : CallTrySendAgentOut("a1", PIN_COUNT, value)
    \/ LoopRecv
    \/ LoopRoute
    \/ LoopSend
    \/ \E m \in Mailboxes : WorkerStart(m)
    \/ \E m \in Mailboxes : WorkerRecv(m)

QueueSpec == QueueInit /\ [][QueueNext]_vars

\* on a full queue a try_send can return and an awaited send cannot
FullQueueCalls ==
    QueueFull /\ CanCall
       => \A value \in InputValues :
             /\ ENABLED CallTrySendAgentOut("a1", PIN_COUNT, value)
             /\ ~ENABLED CallSendAgentOut("a1", PIN_COUNT, value)

\* C32: on a full event queue try_send_agent_out and the board try-send of the In
\* agents return SendMessageFailed and leave the queue as it was, while the awaited
\* send_agent_out does not return before it has put its event once into a queue that
\* had room; the queue never holds more than its capacity
C32_TryFailsSendWaits ==
    /\ [](Len(queue) <= EventQueueCap)
    /\ []FullQueueCalls
    /\ [][TrySendFailsFast /\ SendWaitsForRoom]_vars

\* try_send_agent_out has returned SendMessageFailed on a full queue
C32_Witness ==
    /\ QueueFull
    /\ done.op = "try_send_agent_out"
    /\ done.ret = "SendMessageFailed"

\* a send_agent_out has returned with its event in a queue that is full again, after
\* the loop has taken an earlier event out
C32_SentAfterFull ==
    /\ done.op = "send_agent_out"
    /\ done.ret = "Ok"
    /\ nEv > EventQueueCap
    /\ QueueFull

\* an agent's try_send fails on a full queue
C32_AgentFails ==
    /\ QueueFull
    /\ \E a \in agents : \E n \in 1 .. Len(log[a]) :
          /\ IsInAgent(a)
          /\ ObsAgentError(a, "SendMessageFailed", log[a][n].d) \in obs

-----------------------------------------------------------------------------
(* The channel table and the agents table.                                 *)

\* stream specs given to add_agent_stream whose channel has a source that does not
\* get into the agents table: an agent of an unregistered definition, and an id that
\* is not among the agents of the spec
LooseGraphs ==
    { [agents   |-> << AgentSpec("a4", "Unregistered", NoConfigs, FALSE),
                       AgentSpec("a5", "TestProbe", NoConfigs, FALSE) >>,
       channels |-> << ChannelSpec("a4", PIN_COUNT, "a5", "value") >>],
      [agents   |-> << AgentSpec("a5", "TestProbe", NoConfigs, FALSE) >>,
       channels |-> << ChannelSpec("a4", PIN_COUNT, "a5", "value") >>] }

\* the management calls, with those specs among the ones the host adds
ChanNext ==
    \/ HubNext
    \/ \E g \in LooseGraphs : CallAddAgentStream("s", g)

ChanSpec == HubInit /\ [][ChanNext]_vars

\* C34 as stated: every key of the channel table is the id of an agent of the agents
\* table
C34_AsStated == DOMAIN channels \subseteq agents

\* add_channel and add_agents_and_channels insert a channel only for a source of the
\* agents table, and remove_agent leaves no channel from or to the agent it removed
C34_CheckedCalls ==
    [][/\ done' # done /\ done'.op \in {"add_channel", "add_agents_and_channels"}
          => (DOMAIN channels') \ (DOMAIN channels) \subseteq agents'
       /\ \A a \in agents \ agents' :
             /\ a \notin DOMAIN channels'
             /\ \A src \in DOMAIN channels' : \A i \in 1 .. Len(channels'[src]) :
                   channels'[src][i][1] # a]_vars

\* add_agent_stream has returned Ok and left a channel whose source is no agent
C34_Loose ==
    /\ done.op = "add_agent_stream"
    /\ done.ret = "Ok"
    /\ \E src \in DOMAIN channels : src \notin agents

-----------------------------------------------------------------------------
(* The AgentIn events.                                                     *)

\* the AgentIn events among the observers' events
AgentIns(events) == {e \in events : e.type = "AgentIn"}

\* this step a message of one of the given types goes into the mailbox of agent a,
\* made from the pin and with the delivery number d
Enqueues(types, a, pin, d) ==
    \E m \in Mailboxes :
        /\ worker[m].agent = a
        /\ Len(mbox'[m]) = Len(mbox[m]) + 1
        /\ mbox'[m][Len(mbox'[m])].type \in types
        /\ OriginalPin(mbox'[m][Len(mbox'[m])]) = pin
        /\ mbox'[m][Len(mbox'[m])].d = d

\* this step a message of one of the given types goes into a mailbox
EnqueuesSome(types) ==
    \E m \in Mailboxes :
        /\ Len(mbox'[m]) = Len(mbox[m]) + 1
        /\ mbox'[m][Len(mbox'[m])].type \in types

\* the step emits one AgentIn exactly when it enqueues a message of these types, for
\* the agent and the pin of that message
AgentInFor(types) ==
    /\ \A e \in AgentIns(obs') \ AgentIns(obs) : Enqueues(types, e.name, e.pin, e.n)
    /\ EnqueuesSome(types) => Cardinality(AgentIns(obs') \ AgentIns(obs)) = 1
    /\ AgentIns(obs) \subseteq AgentIns(obs')

\* C35 as stated: the hub emits one AgentIn(agent_id, pin) for each Input message
\* that agent_input puts into a mailbox, not before the message is in, and emits
\* AgentIn for nothing else
C35_AsStated == [][AgentInFor({"Input"})]_vars

\* one AgentIn for each Input or Config message that agent_input puts into a mailbox,
\* with the pin agent_input was called with, and for nothing else
C35_EachMessage == [][AgentInFor({"Input", "Config"})]_vars

\* an AgentIn was emitted for a Config message
C35_ForConfig ==
    \E e \in AgentIns(obs) : starts_with(e.pin, "config:")

-----------------------------------------------------------------------------
(* The workers of one agent.                                               *)

\* the worker tasks of agent a that have not returned
LiveWorkers(a) == {m \in Mailboxes : worker[m].agent = a /\ worker[m].pc # "done"}

\* C36 as stated: at any time at most one live worker task, with its mailbox, exists
\* for an agent id
C36_AsStated == \A a \in AgentIds : Cardinality(LiveWorkers(a)) <= 1

\* two tasks of one agent are both in their receive loop, started by two start_agent
\* calls with no stop between them
C36_StartedTwice ==
    \E a \in AgentIds : \E m, k \in LiveWorkers(a) :
        /\ m # k
        /\ worker[m].pc = "loop" /\ worker[k].pc = "loop"
        /\ \A n \in 1 .. Len(log[a]) : log[a][n].op # "stop"

\* the task of an agent that was stopped has not yet taken the Stop out of its
\* mailbox while the task of the next start is in its loop
C36_Draining ==
    \E a \in AgentIds : \E m, k \in LiveWorkers(a) :
        /\ m < k
        /\ worker[m].pc = "loop" /\ worker[k].pc = "loop"
        /\ mbox[m] # <<>> /\ Head(mbox[m]).type = "Stop"
        /\ agent_txs[a] = k

\* the table has one sender for an agent: the mailbox of its last start_agent
C36_OneSender ==
    \A a \in AgentIds :
        agent_txs[a] # 0 =>
            /\ agent_txs[a] \in Mailboxes
            /\ worker[agent_txs[a]].agent = a
            /\ \A m \in Mailboxes : worker[m].agent = a => m <= agent_txs[a]

-----------------------------------------------------------------------------
(* The status of an agent when its process runs.                           *)

\* this step the process callback of agent a is invoked
ProcessRuns(a) ==
    /\ Len(log'[a]) = Len(log[a]) + 1
    /\ log'[a][Len(log'[a])].op = "process"

\* C37 as stated: the process callback of an agent runs only while the status of the
\* agent is Start
C37_AsStated == [][\A a \in agents : ProcessRuns(a) => data[a].status = "Start"]_vars

\* the process callback of an agent is never invoked before a start callback of the
\* agent has run, and it is invoked by a worker task only
C37_AfterStart ==
    [][\A a \in agents : ProcessRuns(a) =>
          /\ \E n \in 1 .. Len(log[a]) : log[a][n].op = "start"
          /\ log'[a][Len(log'[a])].mb \in Mailboxes
          /\ worker[log'[a][Len(log'[a])].mb].pc = "loop"]_vars

\* a process ran after the stop callback of stop_agent, with no start in between
C37_AfterStop ==
    \E a \in agents : \E n \in 1 .. Len(log[a]) - 1 :
        /\ log[a][n].op = "stop"
        /\ log[a][n + 1].op = "process"
        /\ data[a].status = "Init"

-----------------------------------------------------------------------------
(* The streams table while a call works on a stream.                       *)

\* start_agent_stream from a second host thread, for an id that is not in the table
\* at this moment (for an id of the table it is CallStartStream): the lookup fails
SecondStartStream(id) ==
    /\ nCalls < MaxCalls
    /\ id \notin DOMAIN streams
    /\ nCalls' = nCalls + 1
    /\ done' = Done("start_agent_stream", id, "", AVUnit, 0, 0, 0, "StreamNotFound")
    /\ UNCHANGED <<agents, data, agent_txs, board_out_agents, board_value, channels,
                   streams, tx, queue, loop, mbox, rxClosed, worker, call, nCtx, nEv,
                   nIn, log, obs, dropped>>
    /\ UNCHANGED hostVars

\* the stream of FanStreams is started and stopped by one host thread while a second
\* one asks for it
TableNext ==
    \/ CallStartStream("s1")
    \/ StartStreamStep
    \/ CallStopStream("s1")
    \/ StopStreamTx
    \/ StopStreamCb
    \/ \E id \in {"s1", "s2"} : SecondStartStream(id)
    \/ \E m \in Mailboxes : WorkerStart(m)
    \/ \E m \in Mailboxes : WorkerRecv(m)

TableSpec == QueueInit /\ [][TableNext]_vars

\* the streams the host has added; no call of TableSpec removes a stream
Added == DOMAIN FanStreams

\* C39 as stated: a stream that was added and not removed is in the streams table at
\* every moment, and no call that looks it up returns StreamNotFound
C39_AsStated ==
    /\ [](Added \subseteq DOMAIN streams)
    /\ [][done' # done /\ done'.id \in Added => done'.ret # "StreamNotFound"]_vars

\* when start_agent_stream or stop_agent_stream has returned, and no call is in
\* progress, the stream is in the table
C39_BackOnReturn == call.op = "idle" => Added \subseteq DOMAIN streams

\* a call for a stream that was added has returned StreamNotFound while
\* start_agent_stream of the other thread was starting the agents of the stream
C39_NotFound ==
    /\ done.ret = "StreamNotFound"
    /\ done.id \in Added
    /\ call.op = "start_agent_stream"
    /\ call.id = done.id

-----------------------------------------------------------------------------
(* The lists of board_out_agents.                                          *)

\* the sequence has no element twice
NoDuplicates(seq) == \A i, j \in 1 .. Len(seq) : seq[i] = seq[j] => i = j

\* C40 as stated: a list of board_out_agents holds an agent id at most once
C40_AsStated == \A board \in DOMAIN board_out_agents : NoDuplicates(board_out_agents[board])

\* one BoardOut event has delivered its value twice to a target that hangs on one
\* channel of the one agent subscribed to the board
C40_DeliveredTwice ==
    \E t \in agents : \E i, j \in 1 .. Len(log[t]) :
        /\ i < j
        /\ log[t][i].op = "process" /\ log[t][j].op = "process"
        /\ log[t][i].ev # 0
        /\ log[t][i].ev = log[t][j].ev
        /\ log[t][i].src = log[t][j].src
        /\ log[t][i].src \in DOMAIN board_out_agents
        /\ \E a \in agents :
              /\ Range(board_out_agents[log[t][i].src]) = {a}
              /\ Cardinality({n \in 1 .. Len(ChannelsOf(a)) : ChannelsOf(a)[n][1] = t}) = 1

\* an agent that was started once, by a start_agent that found it in status Init with
\* its name never changed before, is in the list of its board once
C40_StartedOnce ==
    \A a \in agents :
        /\ IsOutAgent(a)
        /\ Cardinality({n \in 1 .. Len(log[a]) : log[a][n].op = "start"}) <= 1
        /\ \A n \in 1 .. Len(log[a]) : log[a][n].op # "set_config"
        => \A board \in DOMAIN board_out_agents :
              Cardinality({i \in 1 .. Len(board_out_agents[board]) :
                              board_out_agents[board][i] = a}) <= 1

-----------------------------------------------------------------------------
(* The end of a worker task, under fair scheduling.                        *)

\* the stream of FaultyStreams is started and stopped and its agents get inputs, of
\* which one to the counter reaches the probe twice
StopNext ==
    \/ CallStartStream("s1")
    \/ StartStreamStep
    \/ CallStopStream("s1")
    \/ StopStreamTx
    \/ StopStreamCb
    \/ \E a \in KnownAgents, value \in InputValues : CallAgentInput(a, PIN_IN, value)
    \/ CallAgentInputSend
    \/ LoopRecv
    \/ LoopRoute
    \/ LoopSend
    \/ \E m \in Mailboxes : WorkerStart(m)
    \/ \E m \in Mailboxes : WorkerRecv(m)
    \/ \E m \in Mailboxes : WorkerExit(m)

\* a spawned worker task is scheduled again and again, up to its return
WorkerRuns(m) == m \in Mailboxes /\ (WorkerStart(m) \/ WorkerRecv(m) \/ WorkerExit(m))

\* so is the event loop task
LoopRuns == LoopRecv \/ LoopRoute \/ LoopSend

\* and a hub call that the host awaits goes on after each of its awaits
CallRuns == StartStreamStep \/ StopStreamTx \/ StopStreamCb \/ CallAgentInputSend

StopSpec ==
    /\ WorkInit
    /\ [][StopNext]_vars
    /\ \A m \in WorkerIds : WF_vars(WorkerRuns(m))
    /\ WF_vars(LoopRuns)
    /\ WF_vars(CallRuns)

\* the table no longer has the sender of mailbox m, whose task has not returned
Stopped(m) ==
    /\ m \in Mailboxes
    /\ agent_txs[worker[m].agent] # m

\* the task of mailbox m has returned
Returned(m) == m \in Mailboxes /\ worker[m].pc = "done"

\* this step the task of mailbox m returns
Exits(m) == worker[m].pc # "done" /\ worker'[m].pc = "done"

\* the ways out of the task: a failed start callback, a Stop at the head of the
\* mailbox, an empty mailbox without senders
ExitsInOrder(m) ==
    \/ worker[m].pc = "spawned" /\ FailsOn(worker[m].agent, "start")
    \/ worker[m].pc = "loop" /\ mbox[m] # <<>> /\ Head(mbox[m]).type = "Stop"
    \/ worker[m].pc = "loop" /\ mbox[m] = <<>> /\ ~HasSender(m)

\* C33: once stop_agent has taken the sender of a running agent out of the table,
\* the worker task of that mailbox eventually returns, whether Stop went into the
\* mailbox or not, and a task returns only on Stop, on the closure of its mailbox or
\* on a failed start callback
C33_WorkerExits ==
    /\ \A m \in WorkerIds : Stopped(m) ~> Returned(m)
    /\ [][\A m \in Mailboxes : Exits(m) => ExitsInOrder(m)]_vars

\* a task has returned on the closure of its mailbox: it has processed two inputs
\* after the stop callback, which filled the mailbox when stop_agent tried to send
\* Stop
C33_Witness ==
    \E m \in Mailboxes : \E n \in 1 .. Len(log[worker[m].agent]) - 2 :
        /\ worker[m].pc = "done"
        /\ MailboxCap = 2
        /\ log[worker[m].agent][n].op = "stop"
        /\ log[worker[m].agent][n + 1].op = "process"
        /\ log[worker[m].agent][n + 1].mb = m
        /\ log[worker[m].agent][n + 2].op = "process"
        /\ log[worker[m].agent][n + 2].mb = m

-----------------------------------------------------------------------------
(* Agents that emit through the awaited send.  The Counter of                *)
(* tests/common/agents.rs ends its process callback in                       *)
(* `self.output(ctx, PIN_COUNT, ..).await`, the awaited send_agent_out: the   *)
(* worker task waits inside the callback for room in the event queue.        *)

\* the stream of the cycle: the counter feeds its own in and reset pins, and a probe
CycleStreams ==
    "s1" :> [agents |-> << AgentSpec("a1", "Counter", SomeConfigs(<<>>), FALSE),
                           AgentSpec("a2", "TestProbe", NoConfigs, FALSE) >>,
             channels |-> << ChannelSpec("a1", PIN_COUNT, "a1", PIN_IN),
                             ChannelSpec("a1", PIN_COUNT, "a1", PIN_RESET),
                             ChannelSpec("a1", PIN_COUNT, "a2", PIN_IN) >>]

\* the hub ready, with that stream added
FlowInit ==
    /\ Fresh(add_agent_streams(NewHub, CycleStreams, <<"s1">>), 0, 1)
    /\ tx = TRUE
    /\ readied = 1

\* the task of mailbox m is about to call process on a Counter
AwaitsOutput(m) ==
    /\ worker[m].pc = "loop"
    /\ mbox[m] # <<>>
    /\ Head(mbox[m]).type = "Input"
    /\ data[worker[m].agent].def_name = "Counter"

\* CounterAgent::process up to the await of output: the task takes the message and
\* the callback counts; the task now holds the event it wants to send
AwaitedProcess(m) ==
    /\ AwaitsOutput(m)
    /\ LET msg == Head(mbox[m])
           a   == worker[m].agent
           n   == IF msg.pin = PIN_RESET THEN 0
                  ELSE IF msg.pin = PIN_IN THEN data[a].count + 1
                  ELSE data[a].count
       IN  /\ mbox' = [mbox EXCEPT ![m] = Tail(@)]
           /\ data' = [data EXCEPT ![a].count = n]
           /\ worker' = [worker EXCEPT ![m] =
                            [agent |-> a, pc |-> "output", msg |-> msg,
                             out |-> AgentOut(a, msg.ctx, PIN_COUNT, AVInteger(n), 0)]]
    /\ UNCHANGED <<agents, agent_txs, board_out_agents, board_value, channels, streams,
                   tx, queue, loop, rxClosed, call, done, nCalls, nCtx, nEv, nIn, log,
                   obs, dropped>>
    /\ UNCHANGED hostVars

\* the task of mailbox m waits in send_agent_out for room in the event queue
OutputWaits(m) ==
    /\ worker[m].pc = "output"
    /\ tx
    /\ Len(queue) >= EventQueueCap

\* message::send_agent_out completes and process returns: without a sender the
\* callback fails with TxNotInitialized, with one the event is accepted once the
\* queue has room
AwaitedOutput(m) ==
    /\ worker[m].pc = "output"
    /\ ~OutputWaits(m)
    /\ LET a == worker[m].agent
           w == worker[m]
       IN  /\ worker' = [worker EXCEPT ![m] = [agent |-> a, pc |-> "loop"]]
           /\ IF tx
              THEN /\ queue' = Append(queue, [w.out EXCEPT !.ev = nEv + 1])
                   /\ nEv' = nEv + 1
                   /\ log' = [log EXCEPT ![a] = Append(@,
                                 [LogEntry("process", w.msg, m) EXCEPT !.out = nEv + 1])]
                   /\ obs' = obs
              ELSE /\ log' = [log EXCEPT ![a] = Append(@, LogEntry("process", w.msg, m))]
                   /\ obs' = obs \cup {ObsAgentError(a, "TxNotInitialized", w.msg.d)}
                   /\ UNCHANGED <<queue, nEv>>
    /\ UNCHANGED <<agents, data, agent_txs, board_out_agents, board_value, channels,
                   streams, tx, loop, mbox, rxClosed, call, done, nCalls, nCtx, nIn,
                   dropped>>
    /\ UNCHANGED hostVars

\* the host starts the stream and feeds the counter; the event loop and the tasks
\* run, the counter's process callback with the awaited send
FlowNext ==
    \/ CallStartStream("s1")
    \/ StartStreamStep
    \/ \E value \in InputValues : CallAgentInput("a1", PIN_IN, value)
    \/ CallAgentInputSend
    \/ LoopRecv
    \/ LoopRoute
    \/ LoopSend
    \/ \E m \in Mailboxes : WorkerStart(m)
    \/ \E m \in Mailboxes : ~AwaitsOutput(m) /\ WorkerRecv(m)
    \/ \E m \in Mailboxes : AwaitedProcess(m)
    \/ \E m \in Mailboxes : AwaitedOutput(m)

FlowSpec == FlowInit /\ [][FlowNext]_vars

\* the event loop waits in agent_input for room in a mailbox
LoopWaits == loop.pc = "send" /\ ~CanSend(loop.held)

\* the event loop waits for room in the mailbox of a task that waits for room in
\* the event queue: neither wait can end
MutualWait == LoopWaits /\ OutputWaits(loop.held)

\* C38: the runtime cannot reach a state in which the event loop waits for space in
\* a full target mailbox while that target's worker waits for space in the full
\* event queue, for any channel graph and with agents that emit through the awaited
\* send_agent_out
C38_AsStated == ~MutualWait

\* in the mutual wait nothing of the cycle can move: no step of the event loop or
\* of the waiting task is enabled, and the events in the queue stay there
C38_Stuck ==
    MutualWait =>
        /\ queue # <<>>
        /\ ~ENABLED LoopSend
        /\ ~ENABLED LoopRecv
        /\ ~ENABLED LoopRoute
        /\ ~ENABLED AwaitedOutput(loop.held)
        /\ ~ENABLED AwaitedProcess(loop.held)

\* a mutual wait in the cycle of the counter: the input of one agent_input call has
\* multiplied until the queue and the counter's mailbox are full
C38_MutualWait ==
    /\ MutualWait
    /\ worker[loop.held].agent = "a1"
    /\ loop.ev.name = "a1"
    /\ nCalls = 2

\* with agents that emit through try_send, as the agents of src/ do, the event loop
\* comes back to an empty queue again and again: every accepted event is dispatched
C38_TrySendAgents == []<>(loop.pc = "recv" /\ queue = <<>>)

-----------------------------------------------------------------------------
(* The agent's mutex.  An agent is an Arc<AsyncMutex<Box<dyn Agent>>>: every *)
(* call site of a callback first awaits agent.lock() and holds the guard     *)
(* until the callback has returned.  Here a callback takes two steps, the    *)
(* acquisition of the lock and the callback with the release, so that tasks  *)
(* meet inside callbacks.                                                    *)

\* a counter with configs whose count reaches a probe twice
LockStreams ==
    "s1" :> [agents |-> << AgentSpec("a1", "Counter", SomeConfigs(<<>>), FALSE),
                           AgentSpec("a2", "TestProbe", NoConfigs, FALSE) >>,
             channels |-> << ChannelSpec("a1", PIN_COUNT, "a2", "value"),
                             ChannelSpec("a1", "*", "a2", "*") >>]

\* the agents of that stream
LockAgents == {"a1", "a2"}

\* the config key of the counter
CONFIG_INITIAL_COUNT == "initial_count"

LockInit ==
    /\ Fresh(add_agent_streams(NewHub, LockStreams, <<"s1">>), 0, 1)
    /\ tx = TRUE
    /\ readied = 1

\* the callbacks a host thread runs on the agent itself
ThreadCallbacks == {"set_config", "set_configs", "update_spec"}

\* the tasks that hold the guard of agent a: worker tasks inside start, process or
\* set_config, the stop_agent of the stream call, host threads inside a callback
Holders(a) ==
    {<<"worker", m>> : m \in {n \in Mailboxes : /\ worker[n].agent = a
                                                /\ worker[n].pc \in {"start", "run"}}}
    \cup {<<"stop_agent", 0>> : x \in {y \in {call} : /\ y.op = "stop_agent_stream"
                                                      /\ y.stage = "locked"
                                                      /\ Head(y.list) = a}}
    \cup {<<"thread", t>> : t \in {u \in HostThreads : /\ pending[u].op \in ThreadCallbacks
                                                       /\ pending[u].id = a}}

\* the mutation of AgentLock: the lock is granted whoever holds it
AgentLockFree(a) == TRUE

\* agent.lock().await returns: nobody holds the guard
AgentLock(a) == Holders(a) = {}

\* start_agent reads def_name and status under the lock, then spawns the task
LockStartStreamStep ==
    /\ call.op = "start_agent_stream"
    /\ AgentLock(Head(call.list))
    /\ StartStreamStep

\* agent_loop: the task has the guard and is about to call start
LockStart(m) ==
    /\ worker[m].pc = "spawned"
    /\ AgentLock(worker[m].agent)
    /\ worker' = [worker EXCEPT ![m].pc = "start"]
    /\ UNCHANGED <<agents, data, agent_txs, board_out_agents, board_value, channels,
                   streams, tx, queue, loop, mbox, rxClosed, call, done, nCalls, nCtx,
                   nEv, nIn, log, obs, dropped>>
    /\ UNCHANGED hostVars

\* agent_loop: start returns and the guard is dropped; on Err the task returns
LockStartEnd(m) ==
    /\ worker[m].pc = "start"
    /\ AgentStart(worker[m].agent, m)
    /\ IF FailsOn(worker[m].agent, "start")
       THEN /\ worker' = [worker EXCEPT ![m].pc = "done"]
            /\ rxClosed' = [rxClosed EXCEPT ![m] = TRUE]
            /\ mbox' = [mbox EXCEPT ![m] = <<>>]
       ELSE /\ worker' = [worker EXCEPT ![m].pc = "loop"]
            /\ UNCHANGED <<mbox, rxClosed>>
    /\ UNCHANGED <<agents, agent_txs, board_value, channels, streams, tx, loop,
                   call, done, nCalls, nCtx, nIn, dropped>>
    /\ UNCHANGED hostVars

\* agent_loop: rx.recv() yields the head of the mailbox; Stop closes the mailbox,
\* any other message is now in the task's hand
LockRecv(m) ==
    /\ worker[m].pc = "loop"
    /\ mbox[m] # <<>>
    /\ IF Head(mbox[m]).type = "Stop"
       THEN WorkerRecv(m)
       ELSE /\ mbox' = [mbox EXCEPT ![m] = Tail(@)]
            /\ worker' = [worker EXCEPT ![m] = [agent |-> worker[m].agent, pc |-> "got",
                                                msg |-> Head(mbox[m])]]
            /\ UNCHANGED <<agents, data, agent_txs, board_out_agents, board_value,
                           channels, streams, tx, queue, loop, rxClosed, call, done,
                           nCalls, nCtx, nEv, nIn, log, obs, dropped>>
            /\ UNCHANGED hostVars

\* agent_loop: the task has the guard and is about to call process or set_config
LockRun(m) ==
    /\ worker[m].pc = "got"
    /\ AgentLock(worker[m].agent)
    /\ worker' = [worker EXCEPT ![m].pc = "run"]
    /\ UNCHANGED <<agents, data, agent_txs, board_out_agents, board_value, channels,
                   streams, tx, queue, loop, mbox, rxClosed, call, done, nCalls, nCtx,
                   nEv, nIn, log, obs, dropped>>
    /\ UNCHANGED hostVars

\* agent_loop: the callback returns, the guard is dropped, back to rx.recv()
LockRunEnd(m) ==
    /\ worker[m].pc = "run"
    /\ IF worker[m].msg.type = "Input"
       THEN AgentProcess(worker[m].agent, worker[m].msg, m)
       ELSE AgentSetConfig(worker[m].agent, worker[m].msg, m)
    /\ worker' = [worker EXCEPT ![m] = [agent |-> worker[m].agent, pc |-> "loop"]]
    /\ UNCHANGED <<agents, agent_txs, board_value, channels, streams, tx, loop, mbox,
                   rxClosed, call, done, nCalls, nCtx, nIn, dropped>>
    /\ UNCHANGED hostVars

\* stop_agent, second block: the call has the guard
LockStop ==
    /\ call.op = "stop_agent_stream"
    /\ call.stage = "cb"
    /\ AgentLock(Head(call.list))
    /\ call' = [call EXCEPT !.stage = "locked"]
    /\ UNCHANGED <<agents, data, agent_txs, board_out_agents, board_value, channels,
                   streams, tx, queue, loop, mbox, rxClosed, worker, done, nCalls, nCtx,
                   nEv, nIn, log, obs, dropped>>
    /\ UNCHANGED hostVars

\* stop_agent, second block: under the guard the stop callback of an agent in status
\* Start; then the next agent of the stream, or the stream goes back into the table
LockStopEnd ==
    /\ call.op = "stop_agent_stream"
    /\ call.stage = "locked"
    /\ stop_agent_cb(Head(call.list))
    /\ IF Tail(call.list) = <<>>
       THEN /\ streams' = WithStream(call.id, [call.stream EXCEPT !.running = FALSE])
            /\ call' = IdleCall
            /\ done' = Done("stop_agent_stream", call.id, "", AVUnit, 0, 0, 0, "Ok")
       ELSE /\ call' = [call EXCEPT !.stage = "tx", !.list = Tail(@)]
            /\ UNCHANGED <<streams, done>>
    /\ UNCHANGED <<agents, agent_txs, board_value, channels, tx, loop, mbox, rxClosed,
                   worker, nCalls, nCtx, nIn, dropped>>
    /\ UNCHANGED hostVars

\* agent_input and set_agent_configs on an agent without a sender, and
\* update_agent_spec: host thread t has looked the agent up and has the guard
LockThread(t, a, cb, value) ==
    /\ nCalls < MaxCalls
    /\ pending[t].op = "idle"
    /\ a \in agents
    /\ cb \in {"set_config", "set_configs"} => agent_txs[a] = 0
    /\ AgentLock(a)
    /\ nCalls' = nCalls + 1
    /\ nIn' = nIn + 1
    /\ pending' = [pending EXCEPT ![t] =
                      [op |-> cb, id |-> a, name |-> "", new_name |-> "",
                       msg |-> InputMessage(0, "config:" \o CONFIG_INITIAL_COUNT, value, 0,
                                            nIn + 1)]]
    /\ UNCHANGED <<agents, data, agent_txs, board_out_agents, board_value, channels,
                   streams, tx, queue, loop, mbox, rxClosed, worker, call, done, nCtx,
                   nEv, log, obs, dropped>>
    /\ UNCHANGED <<id_counter, stream_counter, readied, heldVars>>

\* Agent::set_configs: the configs are replaced, then configs_changed (of the
\* counter: nothing)
AgentSetConfigs(a, msg) ==
    /\ data' = [data EXCEPT ![a].configs = SomeConfigs(msg.pin :> msg.value)]
    /\ log' = [log EXCEPT ![a] = Append(@, LogEntry("set_configs", msg, 0))]
    /\ UNCHANGED <<board_out_agents, queue, nEv, obs>>

\* the callback of host thread t returns, the guard is dropped and the call returns
LockThreadEnd(t) ==
    /\ pending[t].op \in ThreadCallbacks
    /\ LET a   == pending[t].id
           msg == pending[t].msg
       IN  /\ IF pending[t].op = "set_config" THEN AgentSetConfig(a, msg, 0)
              ELSE IF pending[t].op = "set_configs" THEN AgentSetConfigs(a, msg)
              ELSE /\ log' = [log EXCEPT ![a] = Append(@, LogEntry("update_spec", msg, 0))]
                   /\ UNCHANGED <<data, board_out_agents, queue, nEv, obs>>
           /\ done' = Done(pending[t].op, a, msg.pin, msg.value, 0, msg.d, 0, "Ok")
    /\ pending' = [pending EXCEPT ![t] = NoPending]
    /\ UNCHANGED <<agents, agent_txs, board_value, channels, streams, tx, loop, mbox,
                   rxClosed, worker, call, nCalls, nCtx, nIn, dropped>>
    /\ UNCHANGED <<id_counter, stream_counter, readied, heldVars>>

\* the host starts and stops the stream and feeds the running counter inputs and
\* configs; host threads set configs on a stopped agent and update the spec of an
\* agent; the event loop and the worker tasks run
LockNext ==
    \/ CallStartStream("s1")
    \/ LockStartStreamStep
    \/ CallStopStream("s1")
    \/ StopStreamTx
    \/ LockStop
    \/ LockStopEnd
    \/ \E pin \in {PIN_IN, "config:" \o CONFIG_INITIAL_COUNT}, value \in InputValues :
          agent_txs["a1"] # 0 /\ CallAgentInput("a1", pin, value)
    \/ CallAgentInputSend
    \/ \E t \in HostThreads, a \in LockAgents, cb \in ThreadCallbacks, value \in InputValues :
          LockThread(t, a, cb, value)
    \/ LoopRecv
    \/ LoopRoute
    \/ LoopSend
    \/ \E t \in HostThreads : LockThreadEnd(t)
    \/ \E m \in Mailboxes : LockStart(m)
    \/ \E m \in Mailboxes : LockStartEnd(m)
    \/ \E m \in Mailboxes : LockRecv(m)
    \/ \E m \in Mailboxes : LockRun(m)
    \/ \E m \in Mailboxes : LockRunEnd(m)
    \/ \E m \in Mailboxes : WorkerExit(m)

LockSpec == LockInit /\ [][LockNext]_vars

\* at most one task holds the guard of an agent
OneHolder == \A a \in agents : Cardinality(Holders(a)) <= 1

\* a callback of agent a has run in this step
CallbackRuns(a) == log'[a] # log[a]

\* a callback runs under the guard and gives it back: the task that ran it was the
\* holder and is none afterwards
RunsUnderLock(a) ==
    CallbackRuns(a) =>
        /\ Cardinality(Holders(a)) = 1
        /\ Holders(a) \cap Holders(a)' = {}

\* what a step does to mailbox m: a message goes to its end, or its idle task takes
\* its head in hand, or the task closes it on Stop or on the failed start callback
MailboxStep(m) ==
    \/ mbox'[m] = mbox[m]
    \/ \E msg \in {loop.msg, call.msg, MsgStop} : mbox'[m] = Enqueue(mbox[m], msg)
    \/ /\ worker[m].pc = "loop"
       /\ Head(mbox[m]).type # "Stop"
       /\ mbox'[m] = Tail(mbox[m])
       /\ worker'[m].pc = "got"
       /\ worker'[m].msg = Head(mbox[m])
    \/ /\ mbox'[m] = <<>>
       /\ rxClosed'[m]
       /\ worker'[m].pc = "done"

\* the task of mailbox m runs its callback on the message it has in hand, and has
\* none in hand when it takes the next
OneAfterTheOther(m) ==
    /\ worker[m].pc = "got" => /\ worker'[m].pc \in {"got", "run"}
                               /\ worker'[m].msg = worker[m].msg
    /\ worker[m].pc = "run" /\ worker'[m].pc # "run" =>
          /\ worker'[m].pc = "loop"
          /\ Len(log'[worker[m].agent]) = Len(log[worker[m].agent]) + 1
          /\ log'[worker[m].agent][Len(log'[worker[m].agent])].d = worker[m].msg.d
          /\ log'[worker[m].agent][Len(log'[worker[m].agent])].mb = m
    /\ worker[m].pc = "run" /\ worker'[m].pc = "run" => worker'[m].msg = worker[m].msg

\* C31: no two callbacks of the same agent (start, stop, process, set_config,
\* set_configs, update_spec) execute at the same time, whatever the interleaving of
\* its worker tasks, stop_agent, direct config updates to the stopped agent and
\* update_agent_spec; the messages of one mailbox are processed one after the
\* other in FIFO order
C31_OneCallbackAtATime ==
    /\ []OneHolder
    /\ [][\A a \in agents : RunsUnderLock(a)]_vars
    /\ [][\A m \in Mailboxes : MailboxStep(m) /\ OneAfterTheOther(m)]_vars

\* the stop callback of stop_agent runs while a worker task of the agent, with a
\* message in hand, waits for the guard
C31_Witness ==
    /\ Holders("a1") = {<<"stop_agent", 0>>}
    /\ data["a1"].status = "Start"
    /\ \E m \in Mailboxes : worker[m].agent = "a1" /\ worker[m].pc = "got"

\* a host thread sets a config on the stopped agent while the worker task that is
\* still draining the old mailbox waits for the guard
C31_ThreadHolds ==
    /\ \E t \in HostThreads : Holders("a1") = {<<"thread", t>>}
    /\ \E m \in Mailboxes : worker[m].agent = "a1" /\ worker[m].pc = "got"

=============================================================================
